---- MODULE Spec2Model ----
(***************************************************************************)
(* DiscordSlicer: a file is split into parts of chunk_size bytes, each     *)
(* part is sent as one attachment into a text channel of the UPLOAD        *)
(* category, a row of the metadata index names the channel, and download   *)
(* fetches the attachments and concatenates them again.                    *)
(*                                                                         *)
(* Text is modelled as a sequence of one-character strings, so that        *)
(* formatting and parsing (part-file suffixes, channel names, tokens) are  *)
(* computed and not assumed.  File contents are modelled as sequences of   *)
(* extents [src, off, len] ("len bytes of source file src starting at      *)
(* offset off"), kept coalesced: two contents are equal exactly when they  *)
(* denote the same bytes of the same sources in the same order.            *)
(***************************************************************************)
EXTENDS Integers, Sequences, FiniteSets, TLC

VARIABLES
    rt,        \* a component run on its own (split / merge, index, listing): inputs and results
    db,        \* metadata index: [use_cloud, local (table rows), cloud (documents), counter]
    issued,    \* history: the file_id given out by each insert, per store, in order
    category,  \* whether the guild has the UPLOAD category
    channels,  \* live text channels of the category: id -> [name, hist (attachments, oldest first)]
    nextChan,  \* the id the next created channel gets (ids are never given twice)
    upDirs,    \* files/upload/{file_name}: file_name -> [exists, files (name -> content)]
    downDirs,  \* files/download/{channel_id}: channel id -> [exists, files]
    outputs,   \* ~/Downloads: output file name -> NoFile or File(content)
    up_file_size, \* UploadService.file_size, of the one service object of the cog
    dn_message,   \* DownloadService.message: the invocation whose message it is (0: none yet)
    proc,      \* the invocations: kind, position, arguments and local variables
    shown,     \* what the message(s) sent for each invocation display
    started    \* number of invocations started

vars == <<rt, db, issued, category, channels, nextChan, upDirs, downDirs, outputs,
          up_file_size, dn_message, proc, shown, started>>

\* the variables of the bot proper (everything but the two harnesses' own)
botVars == <<category, channels, nextChan, upDirs, downDirs, outputs,
             up_file_size, dn_message, proc, shown, started>>

----------------------------------------------------------------------------
(* Bounds of the model *)

\* chunk sizes 1..MaxChunk are tried besides the program's chunk_size
MaxChunk == 3

\* number of insert calls made on the metadata index on its own (SpecDB)
MaxInserts == 3

\* number of command invocations in a run of the bot
MaxInv == 3

\* number of invocations that may be in progress at the same time
MaxConc == 2

(* Program constants *)

\* UploadService.chunk_size
chunk_size == 26214400

----------------------------------------------------------------------------
(* Text *)

Digits == <<"0", "1", "2", "3", "4", "5", "6", "7", "8", "9">>

DigitChars == {Digits[i] : i \in 1..10}

\* str(i) / f"{i}" of a non-negative int
RECURSIVE DecStr(_)
DecStr(n) ==
    IF n < 10 THEN <<Digits[n + 1]>>
    ELSE DecStr(n \div 10) \o <<Digits[(n % 10) + 1]>>

DigitVal(c) == (CHOOSE i \in 1..10 : Digits[i] = c) - 1

\* str.isdigit(): non-empty and every character a decimal digit
IsDigit(s) == Len(s) > 0 /\ \A i \in 1..Len(s) : s[i] \in DigitChars

\* int(s) for a string of decimal digits
RECURSIVE ParseInt(_)
ParseInt(s) ==
    IF Len(s) = 0 THEN 0
    ELSE 10 * ParseInt(SubSeq(s, 1, Len(s) - 1)) + DigitVal(s[Len(s)])

\* x.split(sep)[-1]: what follows the last occurrence of sep (all of x when there is none)
RECURSIVE LastSegment(_, _)
LastSegment(s, sep) ==
    IF Len(s) = 0 THEN <<>>
    ELSE IF s[Len(s)] = sep THEN <<>>
    ELSE LastSegment(SubSeq(s, 1, Len(s) - 1), sep) \o <<s[Len(s)]>>

UpperCase == <<"A", "B", "C", "D", "E", "F", "G", "H", "I", "J", "K", "L", "M",
               "N", "O", "P", "Q", "R", "S", "T", "U", "V", "W", "X", "Y", "Z">>

LowerCase == <<"a", "b", "c", "d", "e", "f", "g", "h", "i", "j", "k", "l", "m",
               "n", "o", "p", "q", "r", "s", "t", "u", "v", "w", "x", "y", "z">>

\* c.lower()
Lower(c) ==
    IF \E i \in 1 .. 26 : UpperCase[i] = c
    THEN LowerCase[CHOOSE i \in 1 .. 26 : UpperCase[i] = c]
    ELSE c

\* [a-zA-Z0-9_-]
ChannelChar(c) ==
    \/ \E i \in 1 .. 26 : c = UpperCase[i] \/ c = LowerCase[i]
    \/ c \in DigitChars
    \/ c \in {"_", "-"}

\* re.sub(r'[^a-zA-Z0-9_-]', '', file_name).lower()
RECURSIVE Normalize(_)
Normalize(file_name) ==
    IF Len(file_name) = 0 THEN <<>>
    ELSE (IF ChannelChar(Head(file_name)) THEN <<Lower(Head(file_name))>> ELSE <<>>)
         \o Normalize(Tail(file_name))

\* os.path.basename(path)
Basename(path) == LastSegment(path, "/")

\* position of the last "." of a base name that os.path.splitext splits at
\* (0: none; leading dots do not count)
RECURSIVE LeadingDots(_)
LeadingDots(b) == IF Len(b) > 0 /\ Head(b) = "." THEN 1 + LeadingDots(Tail(b)) ELSE 0

SplitPos(b) ==
    LET dots == {i \in 1 .. Len(b) : b[i] = "." /\ i > LeadingDots(b)}
    IN IF dots = {} THEN 0 ELSE CHOOSE i \in dots : \A j \in dots : j <= i

\* os.path.splitext(b)[0] and [1]
SplitextRoot(b) == IF SplitPos(b) = 0 THEN b ELSE SubSeq(b, 1, SplitPos(b) - 1)

SplitextExt(b) == IF SplitPos(b) = 0 THEN <<>> ELSE SubSeq(b, SplitPos(b), Len(b))

\* the extension as os.path.splitext returns it, dot included
KeepDots(e) == e

\* extension.replace(".", "")
RECURSIVE RemoveDots(_)
RemoveDots(e) ==
    IF Len(e) = 0 THEN <<>>
    ELSE (IF Head(e) = "." THEN <<>> ELSE <<Head(e)>>) \o RemoveDots(Tail(e))

----------------------------------------------------------------------------
(* SizeFormatter: convert_size and convert_to_bytes *)

KiB == 1024

MiB == 1048576

GiB == 1073741824

\* f"{x:.2f}" of hundredths h: the integer part, ".", two digits
Fixed2(h) == DecStr(h \div 100) \o <<".">> \o <<Digits[((h % 100) \div 10) + 1], Digits[(h % 10) + 1]>>

\* size / unit in hundredths, rounded to the nearest (for the GiB unit the
\* remainder is first cut to whole KiB, to stay inside 32-bit arithmetic)
Hundredths(size, unit) ==
    LET q == size \div unit
        r == size % unit
    IN IF unit = GiB
       THEN q * 100 + (((r \div KiB) * 100 + (MiB \div 2)) \div MiB)
       ELSE q * 100 + ((r * 100 + (unit \div 2)) \div unit)

\* UploadService.convert_size / DownloadService.convert_size
convert_size(size_bytes) ==
    IF size_bytes >= GiB THEN Fixed2(Hundredths(size_bytes, GiB)) \o <<" ", "G", "B">>
    ELSE IF size_bytes >= MiB THEN Fixed2(Hundredths(size_bytes, MiB)) \o <<" ", "M", "B">>
    ELSE IF size_bytes >= KiB THEN Fixed2(Hundredths(size_bytes, KiB)) \o <<" ", "K", "B">>
    ELSE DecStr(size_bytes) \o <<" ", "b", "y", "t", "e", "s">>

\* str.endswith
EndsWith(s, suffix) ==
    Len(s) >= Len(suffix) /\ SubSeq(s, Len(s) - Len(suffix) + 1, Len(s)) = suffix

\* str.strip() of blanks, as float() does before it parses
RECURSIVE Strip(_)
Strip(s) ==
    IF Len(s) > 0 /\ Head(s) = " " THEN Strip(Tail(s))
    ELSE IF Len(s) > 0 /\ s[Len(s)] = " " THEN Strip(SubSeq(s, 1, Len(s) - 1))
    ELSE s

\* float(s) accepts s: digits, optionally a "." and digits, blanks around
IsFloat(s) ==
    LET t == Strip(s)
        dots == {i \in 1 .. Len(t) : t[i] = "."}
    IN /\ Len(t) > 0
       /\ Cardinality(dots) <= 1
       /\ \A i \in 1 .. Len(t) : t[i] \in DigitChars \/ t[i] = "."
       /\ \E i \in 1 .. Len(t) : t[i] \in DigitChars

\* float(s) in hundredths, for a two-decimal or integer literal
FloatHundredths(s) ==
    LET t == Strip(s)
        dots == {i \in 1 .. Len(t) : t[i] = "."}
    IN IF dots = {} THEN ParseInt(t) * 100
       ELSE LET d == CHOOSE i \in dots : TRUE
                frac == SubSeq(t, d + 1, Len(t))
                f2 == IF Len(frac) = 0 THEN 0
                      ELSE IF Len(frac) = 1 THEN ParseInt(frac) * 10
                      ELSE ParseInt(SubSeq(frac, 1, 2))
            IN ParseInt(SubSeq(t, 1, d - 1)) * 100 + f2

\* int(h/100 * unit), unit a power of two not below MiB
ScaleHundredths(h, unit) ==
    (h \div 100) * unit + ((((h % 100) * MiB) \div 100) * (unit \div MiB))

ValueError == [raised |-> TRUE, value |-> 0]

Returned(v) == [raised |-> FALSE, value |-> v]

\* DownloadService.convert_to_bytes: float() raises ValueError on anything but a number
convert_to_bytes(size_str) ==
    IF EndsWith(size_str, <<"G", "B">>)
    THEN LET n == SubSeq(size_str, 1, Len(size_str) - 2)
         IN IF IsFloat(n) THEN Returned(ScaleHundredths(FloatHundredths(n), GiB)) ELSE ValueError
    ELSE IF EndsWith(size_str, <<"M", "B">>)
    THEN LET n == SubSeq(size_str, 1, Len(size_str) - 2)
         IN IF IsFloat(n) THEN Returned(ScaleHundredths(FloatHundredths(n), MiB)) ELSE ValueError
    ELSE IF IsFloat(size_str) THEN Returned(FloatHundredths(size_str) \div 100) ELSE ValueError

----------------------------------------------------------------------------
(* File contents *)

\* a path of the file system: no file there, or a file with its content
NoFile == [exists |-> FALSE, data |-> <<>>]

File(content) == [exists |-> TRUE, data |-> content]

\* the bytes [off, off+len) of source file src
Extent(src, off, len) == IF len = 0 THEN <<>> ELSE <<[src |-> src, off |-> off, len |-> len]>>

\* the whole of a source file of the given size
Whole(src, size) == Extent(src, 0, size)

\* number of bytes of a content
RECURSIVE ByteLen(_)
ByteLen(c) == IF c = <<>> THEN 0 ELSE Head(c).len + ByteLen(Tail(c))

\* file.write(a) followed by file.write(b)
Concat(a, b) ==
    IF a = <<>> THEN b
    ELSE IF b = <<>> THEN a
    ELSE LET x == a[Len(a)]
             y == b[1]
         IN IF x.src = y.src /\ x.off + x.len = y.off
            THEN SubSeq(a, 1, Len(a) - 1)
                 \o <<[src |-> x.src, off |-> x.off, len |-> x.len + y.len]>>
                 \o Tail(b)
            ELSE a \o b

Min(a, b) == IF a < b THEN a ELSE b

----------------------------------------------------------------------------
(* ChunkSplitter: UploadService.split_file *)

\* num_chunks = file_size // chunk_size, plus one when there is a remainder
NumChunksFloor(file_size, csize) == file_size \div csize

NumChunks(file_size, csize) ==
    (file_size \div csize) + (IF file_size % csize # 0 THEN 1 ELSE 0)

\* f'{filename}_{i}'
ChunkFilename(filename, i) == filename \o <<"_">> \o DecStr(i)

\* file_handle.read(chunk_size) at the i-th iteration of the loop
ChunkData(src, file_size, csize, i) ==
    Extent(src, i * csize, Min(csize, file_size - i * csize))

\* split_file: the part files written into files/upload/{filename} and the
\* value returned.  ioerr is the set of indices whose chunk_file.write raises
\* IOError: the file was opened 'wb' (created empty), nothing is counted.
SplitFile(src, file_size, csize, filename, ioerr) ==
    LET num_chunks   == NumChunks(file_size, csize)
        idx          == 0 .. (num_chunks - 1)
        chunks_saved == Cardinality(idx \ ioerr)
    IN [ written |-> [n \in {ChunkFilename(filename, i) : i \in idx} |->
                        LET i == CHOOSE j \in idx : ChunkFilename(filename, j) = n
                        IN IF i \in ioerr THEN <<>>
                           ELSE ChunkData(src, file_size, csize, i)],
         num_chunks |-> num_chunks,
         ok |-> (chunks_saved = num_chunks) ]

----------------------------------------------------------------------------
(* DownloadPipeline, reassembly: DownloadService.merge_files *)

\* the suffix compared as text: "10" sorts before "2"
SuffixKeyAsText(x) ==
    LET d == LastSegment(x, "_")
    IN (CASE Len(d) = 1 -> ParseInt(d) * 100
          [] Len(d) = 2 -> ParseInt(d) * 10
          [] OTHER -> ParseInt(d)) * 10 + Len(d)

\* key=lambda x: int(x.split("_")[-1])
SuffixKey(x) == ParseInt(LastSegment(x, "_"))

\* sorted(names, key=SuffixKey)
RECURSIVE SortedBySuffix(_)
SortedBySuffix(names) ==
    IF names = {} THEN <<>>
    ELSE LET m == CHOOSE x \in names : \A y \in names : SuffixKey(x) <= SuffixKey(y)
         IN <<m>> \o SortedBySuffix(names \ {m})

RECURSIVE ConcatAll(_, _)
ConcatAll(dir, order) ==
    IF order = <<>> THEN <<>>
    ELSE Concat(dir[Head(order)], ConcatAll(dir, Tail(order)))

\* merge_files over the download directory dir (part file name -> content):
\* NoFile when the directory is empty ("No Downloaded files found", nothing is
\* opened for writing), else the concatenation in ascending suffix order.
MergeFiles(dir) ==
    LET input_files == SortedBySuffix(DOMAIN dir)
    IN IF input_files = <<>> THEN NoFile ELSE File(ConcatAll(dir, input_files))

\* the output file when the loop of merge_files stops after k part files
MergeFilesUpTo(dir, k) ==
    File(ConcatAll(dir, SubSeq(SortedBySuffix(DOMAIN dir), 1, k)))

\* how far merge_files gets: -1 when open(output_path, 'wb') raises OSError,
\* k when the write of part k + 1 raises it (the output holds k parts), the
\* number of part files when nothing raises
MergeErrs(dir) == -1 .. Cardinality(DOMAIN dir)

----------------------------------------------------------------------------
(* MetadataIndex: HybridDBhandler over LocalDBManager and CloudDBManager.     *)
(* A store is the sequence of its rows in the order queries return them.     *)
(* The handlers pass a sixth argument (the part count) to insert_file and     *)
(* read rows through get_file_by_channelid; the database_handler.py at hand   *)
(* predates both, so the row with its num_files column and that lookup are    *)
(* taken from the data model (SavedFile.num_files, find_by_container).        *)

None == [found |-> FALSE]

Some(v) == [found |-> TRUE, val |-> v]

\* the row insert_file stores, with the part count the upload passes
Row(user_id, channel_id, file_name, file_size, file_type, num_files) ==
    [user_id |-> user_id, channel_id |-> channel_id, file_name |-> file_name,
     file_size |-> file_size, file_type |-> file_type, num_files |-> num_files]

WithFileId(row, file_id) ==
    [file_id |-> file_id, user_id |-> row.user_id, channel_id |-> row.channel_id,
     file_name |-> row.file_name, file_size |-> row.file_size,
     file_type |-> row.file_type, num_files |-> row.num_files]

MaxOf(S) == CHOOSE x \in S : \A y \in S : y <= x

\* the number of rows plus 1
NextLocalFileIdByCount(table) == Len(table) + 1

\* session.query(func.max(SavedFile.file_id)).scalar() or 0, plus 1
NextLocalFileId(table) ==
    (IF Len(table) = 0 THEN 0 ELSE MaxOf({table[i].file_id : i \in 1 .. Len(table)})) + 1

\* the row added twice, under two file_ids
LocalInsertTwice(table, row) ==
    LET once == Append(table, WithFileId(row, NextLocalFileId(table)))
    IN Append(once, WithFileId(row, NextLocalFileId(once)))

\* LocalDBManager.insert_file
LocalInsert(table, row) == Append(table, WithFileId(row, NextLocalFileId(table)))

\* CloudDBManager.insert_file: find_one_and_update $inc (upsert, AFTER), insert_one
CloudInsert(d, row) ==
    [d EXCEPT !.counter = d.counter + 1,
              !.cloud = Append(d.cloud, WithFileId(row, d.counter + 1))]

\* the first of the matching rows of a store, 0 when there is none:
\* query.filter_by(...).first() / find_one
FirstIndex(matching) ==
    IF matching = {} THEN 0 ELSE CHOOSE i \in matching : \A j \in matching : i <= j

\* the rows of a store with a given channel_id
WithChannelId(table, channel_id) ==
    {i \in 1 .. Len(table) : table[i].channel_id = channel_id}

RemoveAt(table, i) == SubSeq(table, 1, i - 1) \o SubSeq(table, i + 1, Len(table))

\* the last row removed whenever some row matches
StoreDeleteLast(table, channel_id) ==
    LET i == FirstIndex(WithChannelId(table, channel_id))
    IN IF i = 0 THEN [table |-> table, result |-> FALSE]
       ELSE [table |-> RemoveAt(table, Len(table)), result |-> TRUE]

\* LocalDBManager.delete_by_channel_id / CloudDBManager.delete_by_channel_id:
\* the store afterwards and the value returned
StoreDelete(table, channel_id) ==
    LET i == FirstIndex(WithChannelId(table, channel_id))
    IN IF i = 0 THEN [table |-> table, result |-> FALSE]
       ELSE [table |-> RemoveAt(table, i), result |-> TRUE]

\* HybridDBhandler.insert_file: the cloud store when it is selected, and the
\* local store in every case
HybridInsert(d, row) ==
    LET c == IF d.use_cloud THEN CloudInsert(d, row) ELSE d
    IN [c EXCEPT !.local = LocalInsert(d.local, row)]

\* the store the lookups and delete of HybridDBhandler go to
Active(d) == IF d.use_cloud THEN d.cloud ELSE d.local

\* HybridDBhandler.delete_by_channel_id
HybridDelete(d, channel_id) ==
    LET r == StoreDelete(Active(d), channel_id)
    IN [db |-> IF d.use_cloud THEN [d EXCEPT !.cloud = r.table]
                               ELSE [d EXCEPT !.local = r.table],
        result |-> r.result]

\* find_by(**kwargs): the channel_id of the first matching row, or None
FindBy(table, matching) ==
    LET i == FirstIndex(matching)
    IN IF i = 0 THEN None ELSE Some(table[i].channel_id)

\* find_by_id(file_id): the token is compared as a number (SQLite's integer
\* affinity in the local store, int(file_id) in the cloud store)
FindById(d, file) ==
    FindBy(Active(d), {i \in 1 .. Len(Active(d)) : Active(d)[i].file_id = ParseInt(file)})

\* find_by_filename(filename)
FindByFilename(d, filename) ==
    FindBy(Active(d), {i \in 1 .. Len(Active(d)) : Active(d)[i].file_name = filename})

\* find_by_channel_id(channel_id)
FindByChannelId(d, channel_id) ==
    FindBy(Active(d), WithChannelId(Active(d), channel_id))

\* get_file_by_channelid(channel_id): the row of the container, or None
GetFileByChannelId(d, channel_id) ==
    LET i == FirstIndex(WithChannelId(Active(d), channel_id))
    IN IF i = 0 THEN None ELSE Some(Active(d)[i])

\* HybridDBhandler.get_files
GetFiles(d) == Active(d)

\* what the name lookups return when no row matches (the local store)
NoFileFound == <<"N", "o", " ", "f", "i", "l", "e", " ", "f", "o", "u", "n", "d">>

\* result.get(...) on the None that find_one returns when no document matches
AttributeError == [raised |-> TRUE, value |-> "AttributeError"]

\* the rows by ascending channel_id
LocalGetFilesByChannel(table) ==
    SortSeq(table, LAMBDA x, y : x.channel_id < y.channel_id)

\* LocalDBManager.get_files: session.query(SavedFile).all(), in rowid order
LocalGetFiles(table) == table

\* CloudDBManager.get_files: collection.find(), in insertion order
CloudGetFiles(table) == table

\* LocalDBManager.find_by_id / CloudDBManager.find_by_id on a store
StoreFindById(table, file_id) ==
    Returned(FindBy(table, {i \in 1 .. Len(table) : table[i].file_id = ParseInt(file_id)}))

\* LocalDBManager.find_by_filename / CloudDBManager.find_by_filename on a store
StoreFindByFilename(table, filename) ==
    Returned(FindBy(table, {i \in 1 .. Len(table) : table[i].file_name = filename}))

\* LocalDBManager.find_by_channel_id / CloudDBManager.find_by_channel_id on a store
StoreFindByChannelId(table, channel_id) ==
    Returned(FindBy(table, WithChannelId(table, channel_id)))

\* LocalDBManager.find_name_by_channel_id
LocalFindName(table, channel_id) ==
    LET i == FirstIndex(WithChannelId(table, channel_id))
    IN IF i = 0 THEN Returned(NoFileFound) ELSE Returned(table[i].file_name)

\* CloudDBManager.find_name_by_channel_id
CloudFindName(table, channel_id) ==
    LET i == FirstIndex(WithChannelId(table, channel_id))
    IN IF i = 0 THEN AttributeError ELSE Returned(table[i].file_name)

\* f"{file.file_name}.{file.file_type}" / file_name + '.' + file_type
FullName(row) == row.file_name \o <<".">> \o row.file_type

\* LocalDBManager.find_fullname_by_channel_id
LocalFindFullname(table, channel_id) ==
    LET i == FirstIndex(WithChannelId(table, channel_id))
    IN IF i = 0 THEN Returned(NoFileFound) ELSE Returned(FullName(table[i]))

\* CloudDBManager.find_fullname_by_channel_id
CloudFindFullname(table, channel_id) ==
    LET i == FirstIndex(WithChannelId(table, channel_id))
    IN IF i = 0 THEN AttributeError ELSE Returned(FullName(table[i]))

\* history: what an insert adds to the file_ids given out
IssuedBy(d, row) ==
    [local |-> Append(issued.local, NextLocalFileId(d.local)),
     cloud |-> IF d.use_cloud THEN Append(issued.cloud, d.counter + 1) ELSE issued.cloud]

EmptyDb(use_cloud) == [use_cloud |-> use_cloud, local |-> <<>>, cloud |-> <<>>, counter |-> 0]

NoIssued == [local |-> <<>>, cloud |-> <<>>]

----------------------------------------------------------------------------
(* The bot: source files, tokens, invocations *)

Procs == 1 .. MaxInv

PathA == <<"a", ".", "t">>

PathB == <<"A", "!", ".", "b">>

PathC == <<"1", ".", "t">>

\* another file of the base name "A!.b", in a directory of its own
PathD == <<"d", "/", "A", "!", ".", "b">>

PathMissing == <<"z">>

\* the files on disk that can be uploaded: path -> [src (identity of the bytes), size]
SourceFiles ==
    (PathA :> [src |-> 1, size |-> KiB]) @@
    (PathB :> [src |-> 2, size |-> chunk_size + 1]) @@
    (PathC :> [src |-> 3, size |-> 5 * MiB]) @@
    (PathD :> [src |-> 4, size |-> 2 * KiB])

UploadPaths == DOMAIN SourceFiles \cup {PathMissing}

\* what a requester may type to name a stored file
Tokens == { <<"1">>, <<"2">>, <<"a">>, PathB }

\* file_name, extension = os.path.splitext(os.path.basename(path))
FileNameOf(path) == SplitextRoot(Basename(path))

ExtensionOf(path) == SplitextExt(Basename(path))

UploadNames == {FileNameOf(path) : path \in UploadPaths}

NoDir == [exists |-> FALSE, files |-> <<>>]

Dir(files) == [exists |-> TRUE, files |-> files]

\* writing files into a directory that may hold files already
Overwrite(dir, written) ==
    Dir([n \in (DOMAIN dir.files) \cup (DOMAIN written) |->
            IF n \in DOMAIN written THEN written[n] ELSE dir.files[n]])

Desc(tag) ==
    [desc |-> tag, parts_done |-> 0, parts_total |-> 0, bytes_done |-> 0, bytes_total |-> <<>>]

Progress(parts_done, parts_total, bytes_done, bytes_total) ==
    [desc |-> "progress", parts_done |-> parts_done, parts_total |-> parts_total,
     bytes_done |-> bytes_done, bytes_total |-> bytes_total]

IdleProc ==
    [kind |-> "idle", pc |-> "idle", arg |-> <<>>, chan |-> 0,
     file_name |-> <<>>, extension |-> <<>>, files |-> {}, total_files |-> 0,
     counter |-> 0, done_size |-> 0, conv_size |-> <<>>, bytefilesize |-> 0,
     remaining_size |-> 0, idx |-> 0, clicked_by |-> "none", oserror |-> FALSE,
     outcome |-> "none"]

Running(p) == proc[p].pc \notin {"idle", "done", "crashed"}

BotOff ==
    /\ category = FALSE
    /\ channels = <<>>
    /\ nextChan = 1
    /\ upDirs = [n \in UploadNames |-> NoDir]
    /\ downDirs = <<>>
    /\ outputs = <<>>
    /\ up_file_size = 0
    /\ dn_message = 0
    /\ proc = [p \in Procs |-> IdleProc]
    /\ shown = [p \in Procs |-> Desc("none")]
    /\ started = 0

Init ==
    /\ \E uc \in BOOLEAN : db = EmptyDb(uc)
    /\ issued = NoIssued
    /\ rt = [phase |-> "off"]
    /\ BotOff

\* a command is accepted: the invocations are numbered in the order they start
CanStart(p) ==
    /\ p = started + 1
    /\ started < MaxInv
    /\ Cardinality({q \in Procs : Running(q)}) < MaxConc

Goto(p, pc) == [proc EXCEPT ![p].pc = pc]

\* an exception leaves the coroutine: the command ends without another message
Crash(p, exc) == [proc EXCEPT ![p].pc = "crashed", ![p].outcome = exc]

End(p, outcome) == [proc EXCEPT ![p].pc = "done", ![p].outcome = outcome]

Show(p, d) == [shown EXCEPT ![p] = d]

----------------------------------------------------------------------------
(* IdentifierResolver: SearchService.get_file_channel_id *)

\* discord.utils.get(category.channels, name=...): the first channel so named
ChannelNamed(chs, name) ==
    LET named == {c \in DOMAIN chs : chs[c].name = name}
    IN IF named = {} THEN 0 ELSE CHOOSE c \in named : \A e \in named : c <= e

\* the three lookups tried with the base name first
ResolveNameFirst(d, cat, chs, file) ==
    LET byName == FindByFilename(d, SplitextRoot(Basename(file)))
        byId == IF IsDigit(file) THEN FindById(d, file) ELSE None
    IN IF byName.found THEN byName ELSE byId

\* the first two lookups only
ResolveNoChannel(d, cat, chs, file) ==
    LET byId == IF IsDigit(file) THEN FindById(d, file) ELSE None
        byName == FindByFilename(d, SplitextRoot(Basename(file)))
    IN IF byId.found THEN byId ELSE byName

\* the channel named like the token returned without asking the index
ResolveAnyChannel(d, cat, chs, file) ==
    LET byId == IF IsDigit(file) THEN FindById(d, file) ELSE None
        byName == FindByFilename(d, SplitextRoot(Basename(file)))
        ch == IF cat THEN ChannelNamed(chs, file) ELSE 0
    IN IF byId.found THEN byId
       ELSE IF byName.found THEN byName
       ELSE IF ch # 0 THEN Some(ch) ELSE None

\* get_file_channel_id: by id when the token is all digits, then by base name,
\* then by the name of a live channel of the category that has a row
Resolve(d, cat, chs, file) ==
    LET byId == IF IsDigit(file) THEN FindById(d, file) ELSE None
        byName == FindByFilename(d, SplitextRoot(Basename(file)))
        ch == IF cat THEN ChannelNamed(chs, file) ELSE 0
        byChannel == IF ch # 0 THEN FindByChannelId(d, ch) ELSE None
    IN IF byId.found THEN byId
       ELSE IF byName.found THEN byName
       ELSE byChannel

\* whether get_file_channel_id gets as far as the category lookup, which
\* creates the category when there is none
ReachesCategory(d, file) ==
    /\ ~(IsDigit(file) /\ FindById(d, file).found)
    /\ ~FindByFilename(d, SplitextRoot(Basename(file))).found

----------------------------------------------------------------------------
(* UploadPipeline: UploadService.main and upload_files.  One action per       *)
(* stretch of code between two awaits; the effect of the awaited call on      *)
(* the guild belongs to the action that issues it.                            *)

\* main, lines 73-74: self.embed = Embed("Working on Upload"), ctx.reply
UploadStart(p) ==
    /\ CanStart(p)
    /\ \E path \in UploadPaths :
         proc' = [proc EXCEPT ![p] = [IdleProc EXCEPT !.kind = "upload", !.pc = "u_main",
                                                      !.arg = path,
                                                      !.file_name = FileNameOf(path),
                                                      !.extension = ExtensionOf(path)]]
    /\ shown' = Show(p, Desc("Working on Upload"))
    /\ started' = started + 1
    /\ UNCHANGED <<rt, db, issued, category, channels, nextChan, upDirs, downDirs, outputs,
                   up_file_size, dn_message>>

\* chunk_file.write may raise IOError for one of the first two parts
IoErrs(size) == {{}} \cup {{i} : i \in {j \in 0 .. 1 : j * chunk_size < size}}

\* the duplicate check left out: a channel is created in every case
UploadCheckNone(p, chs) == [pc |-> "u_create", outcome |-> "none", shown |-> shown]

\* upload_files, lines 150-162: the channel name and the duplicate check.
\* The next position and what the requester's message shows.
UploadCheck(p, chs) ==
    IF ChannelNamed(chs, Normalize(proc[p].file_name)) # 0
    THEN [pc |-> "u_cleanup", outcome |-> "File already exists",
          shown |-> Show(p, Desc("File already exists"))]
    ELSE [pc |-> "u_create", outcome |-> "none", shown |-> shown]

\* main removing the working directory when split_file fails
UploadMainCleans(p) ==
    /\ proc[p].pc = "u_main"
    /\ IF proc[p].arg \notin DOMAIN SourceFiles
       THEN \* the path is missing
            /\ proc' = End(p, "doesnt exist")
            /\ shown' = Show(p, Desc("doesnt exist"))
            /\ UNCHANGED <<upDirs, up_file_size>>
       ELSE \E ioerr \in IoErrs(SourceFiles[proc[p].arg].size) :
            LET f == SourceFiles[proc[p].arg]
                r == SplitFile(f.src, f.size, chunk_size, proc[p].file_name, ioerr)
                c == UploadCheck(p, channels)
            IN /\ upDirs' = [upDirs EXCEPT ![proc[p].file_name] =
                                IF r.ok THEN Overwrite(@, r.written) ELSE NoDir]
               /\ up_file_size' = f.size
               /\ IF ~r.ok
                  THEN \* the split failed
                       /\ proc' = End(p, "Failed to split the file")
                       /\ shown' = shown
                  ELSE IF ~category
                  THEN \* the category is created first
                       /\ proc' = Goto(p, "u_cat")
                       /\ shown' = shown
                  ELSE /\ proc' = [proc EXCEPT ![p].pc = c.pc, ![p].outcome = c.outcome]
                       /\ shown' = c.shown
    /\ UNCHANGED <<rt, db, issued, category, channels, nextChan, downDirs, outputs,
                   dn_message, started>>

\* main, lines 75-90, and upload_files up to its first await
UploadMain(p) ==
    /\ proc[p].pc = "u_main"
    /\ IF proc[p].arg \notin DOMAIN SourceFiles
       THEN \* lines 86-90
            /\ proc' = End(p, "doesnt exist")
            /\ shown' = Show(p, Desc("doesnt exist"))
            /\ UNCHANGED <<upDirs, up_file_size>>
       ELSE \E ioerr \in IoErrs(SourceFiles[proc[p].arg].size) :
            LET f == SourceFiles[proc[p].arg]
                r == SplitFile(f.src, f.size, chunk_size, proc[p].file_name, ioerr)
                c == UploadCheck(p, channels)
            IN /\ upDirs' = [upDirs EXCEPT ![proc[p].file_name] = Overwrite(@, r.written)]
               /\ up_file_size' = f.size
               /\ IF ~r.ok
                  THEN \* lines 83-85: the edit is not awaited, nothing is shown
                       /\ proc' = End(p, "Failed to split the file")
                       /\ shown' = shown
                  ELSE IF ~category
                  THEN \* line 148: await ctx.guild.create_category
                       /\ proc' = Goto(p, "u_cat")
                       /\ shown' = shown
                  ELSE /\ proc' = [proc EXCEPT ![p].pc = c.pc, ![p].outcome = c.outcome]
                       /\ shown' = c.shown
    /\ UNCHANGED <<rt, db, issued, category, channels, nextChan, downDirs, outputs,
                   dn_message, started>>

\* upload_files, line 148 done: the category exists; lines 150-162
UploadCat(p) ==
    /\ proc[p].pc = "u_cat"
    /\ category' = TRUE
    /\ LET c == UploadCheck(p, channels)
       IN /\ proc' = [proc EXCEPT ![p].pc = c.pc, ![p].outcome = c.outcome]
          /\ shown' = c.shown
    /\ UNCHANGED <<rt, db, issued, channels, nextChan, upDirs, downDirs, outputs,
                   up_file_size, dn_message, started>>

\* upload_files, lines 156-178: the channel is created, the working directory
\* is listed, the totals are taken, the first message is replaced
UploadCreate(p) ==
    /\ proc[p].pc = "u_create"
    /\ channels' = channels @@
                   (nextChan :> [name |-> Normalize(proc[p].file_name), hist |-> <<>>])
    /\ nextChan' = nextChan + 1
    /\ IF ~upDirs[proc[p].file_name].exists
       THEN \* os.listdir of a directory another upload removed
            /\ proc' = [Crash(p, "FileNotFoundError") EXCEPT ![p].chan = nextChan]
            /\ shown' = shown
       ELSE /\ proc' = [proc EXCEPT ![p].pc = "u_loop",
                                    ![p].chan = nextChan,
                                    ![p].files = DOMAIN upDirs[proc[p].file_name].files,
                                    ![p].total_files =
                                        Cardinality(DOMAIN upDirs[proc[p].file_name].files),
                                    ![p].conv_size = convert_size(up_file_size)]
            /\ shown' = Show(p, Desc("Preparing upload"))
    /\ UNCHANGED <<rt, db, issued, category, upDirs, downDirs, outputs,
                   up_file_size, dn_message, started>>

\* a failed send taking the channel and its parts back
UploadSendRollsBack(p) ==
    /\ proc[p].pc = "u_loop"
    /\ \E file \in proc[p].files :
         LET dir == upDirs[proc[p].file_name]
         IN IF ~dir.exists \/ file \notin DOMAIN dir.files
            THEN \* the part file is gone
                 /\ proc' = Crash(p, "FileNotFoundError")
                 /\ UNCHANGED <<shown, channels>>
            ELSE /\ shown' = Show(p, Progress(proc[p].counter, proc[p].total_files,
                                              proc[p].done_size, proc[p].conv_size))
                 /\ \E sent \in BOOLEAN :
                      IF sent /\ proc[p].chan \in DOMAIN channels
                      THEN /\ channels' = [channels EXCEPT ![proc[p].chan].hist =
                                    Append(@, [filename |-> file, data |-> dir.files[file]])]
                           /\ proc' = [proc EXCEPT
                                    ![p].files = @ \ {file},
                                    ![p].counter = @ + 1,
                                    ![p].done_size = @ + ByteLen(dir.files[file]),
                                    ![p].remaining_size =
                                        up_file_size - (proc[p].done_size + ByteLen(dir.files[file]))]
                      ELSE /\ proc' = Crash(p, "send failed")
                           /\ channels' = [c \in (DOMAIN channels) \ {proc[p].chan} |->
                                               channels[c]]
    /\ UNCHANGED <<rt, db, issued, category, nextChan, upDirs, downDirs, outputs,
                   up_file_size, dn_message, started>>

\* one iteration of the loop of lines 183-209, for any of the files not yet
\* sent (os.listdir returns them in arbitrary order): the progress is shown,
\* the part is sent, the counters are updated
UploadSend(p) ==
    /\ proc[p].pc = "u_loop"
    /\ \E file \in proc[p].files :
         LET dir == upDirs[proc[p].file_name]
         IN IF ~dir.exists \/ file \notin DOMAIN dir.files
            THEN \* open() of a part file another upload removed
                 /\ proc' = Crash(p, "FileNotFoundError")
                 /\ UNCHANGED <<shown, channels>>
            ELSE /\ shown' = Show(p, Progress(proc[p].counter, proc[p].total_files,
                                              proc[p].done_size, proc[p].conv_size))
                 /\ \E sent \in BOOLEAN :
                      IF sent /\ proc[p].chan \in DOMAIN channels
                      THEN /\ channels' = [channels EXCEPT ![proc[p].chan].hist =
                                    Append(@, [filename |-> file, data |-> dir.files[file]])]
                           /\ proc' = [proc EXCEPT
                                    ![p].files = @ \ {file},
                                    ![p].counter = @ + 1,
                                    ![p].done_size = @ + ByteLen(dir.files[file]),
                                    ![p].remaining_size =
                                        up_file_size - (proc[p].done_size + ByteLen(dir.files[file]))]
                      ELSE \* text_channel.send raises
                           /\ proc' = Crash(p, "send failed")
                           /\ channels' = channels
    /\ UNCHANGED <<rt, db, issued, category, nextChan, upDirs, downDirs, outputs,
                   up_file_size, dn_message, started>>

\* the record is inserted without waiting for the parts
AllSentOrNot(p) == TRUE

\* the loop of lines 183-209 has gone through all of files
AllSent(p) == proc[p].files = {}

\* upload_files, lines 212-229: the row is inserted, the end is reported
UploadFinish(p) ==
    /\ proc[p].pc = "u_loop"
    /\ AllSent(p)
    /\ LET row == Row(p, proc[p].chan, proc[p].file_name,
                      convert_size(SourceFiles[proc[p].arg].size),
                      RemoveDots(proc[p].extension), proc[p].total_files)
       IN /\ db' = HybridInsert(db, row)
          /\ issued' = IssuedBy(db, row)
    /\ proc' = [proc EXCEPT ![p].pc = "u_cleanup", ![p].outcome = "Finished Upload"]
    /\ shown' = Show(p, Desc("Finished Upload"))
    /\ UNCHANGED <<rt, category, channels, nextChan, upDirs, downDirs, outputs,
                   up_file_size, dn_message, started>>

\* main returning without removing the working directory
UploadCleanupKeeps(p) ==
    /\ proc[p].pc = "u_cleanup"
    /\ proc' = Goto(p, "done")
    /\ UNCHANGED <<rt, db, issued, category, channels, nextChan, upDirs, downDirs, outputs,
                   up_file_size, dn_message, shown, started>>

\* main, line 81: shutil.rmtree(f"files/upload/{file_name}")
UploadCleanup(p) ==
    /\ proc[p].pc = "u_cleanup"
    /\ IF upDirs[proc[p].file_name].exists
       THEN /\ upDirs' = [upDirs EXCEPT ![proc[p].file_name] = NoDir]
            /\ proc' = Goto(p, "done")
       ELSE /\ upDirs' = upDirs
            /\ proc' = [proc EXCEPT ![p].pc = "crashed"]
    /\ UNCHANGED <<rt, db, issued, category, channels, nextChan, downDirs, outputs,
                   up_file_size, dn_message, shown, started>>

----------------------------------------------------------------------------
(* DownloadPipeline: DownloadService.main, download_files, merge_files *)

\* the name of the output file: f"{file['file_name']}.{file['file_type']}"
OutputName(row) == row.file_name \o <<".">> \o row.file_type

OutputAt(name) == IF name \in DOMAIN outputs THEN outputs[name] ELSE NoFile

DownDirAt(dirs, ch) == IF ch \in DOMAIN dirs THEN dirs[ch] ELSE NoDir

\* Path(...).mkdir(parents=True, exist_ok=True)
MkDir(dirs, ch) == IF DownDirAt(dirs, ch).exists THEN dirs ELSE (ch :> Dir(<<>>)) @@ dirs

\* main, lines 66-67: self.embed = Embed("Working on Download"), ctx.reply
DownloadStart(p) ==
    /\ CanStart(p)
    /\ \E token \in Tokens :
         proc' = [proc EXCEPT ![p] = [IdleProc EXCEPT !.kind = "download", !.pc = "d_main",
                                                      !.arg = token]]
    /\ shown' = Show(p, Desc("Working on Download"))
    /\ started' = started + 1
    /\ UNCHANGED <<rt, db, issued, category, channels, nextChan, upDirs, downDirs, outputs,
                   up_file_size, dn_message>>

\* main, lines 68-76, and download_files, lines 99-134: the token is resolved,
\* the row is read, the working directory is made, the category and the
\* channel are looked up, the first message is replaced by self.message, the
\* size label is converted
DownloadMain(p) ==
    /\ proc[p].pc = "d_main"
    /\ LET file_id == Resolve(db, category, channels, proc[p].arg)
           file == GetFileByChannelId(db, file_id.val)
       IN /\ category' = (category \/ ReachesCategory(db, proc[p].arg))
          /\ IF ~file_id.found
             THEN \* lines 75-76
                  /\ proc' = End(p, "Didn't find any file")
                  /\ shown' = Show(p, Desc("Didn't find any file"))
                  /\ UNCHANGED <<downDirs, dn_message>>
             ELSE /\ downDirs' = MkDir(downDirs, file_id.val)
                  /\ IF ~category
                     THEN \* lines 109-113
                          /\ proc' = [End(p, "No category found") EXCEPT ![p].chan = file_id.val]
                          /\ shown' = Show(p, Desc("No category found"))
                          /\ dn_message' = dn_message
                     ELSE IF file_id.val \notin DOMAIN channels
                     THEN \* lines 116-120
                          /\ proc' = [End(p, "No text channel found") EXCEPT ![p].chan = file_id.val]
                          /\ shown' = Show(p, Desc("No text channel found"))
                          /\ dn_message' = dn_message
                     ELSE IF ~file.found
                     THEN \* line 122: file['file_name'] of None
                          /\ proc' = [Crash(p, "TypeError") EXCEPT ![p].chan = file_id.val]
                          /\ UNCHANGED <<shown, dn_message>>
                     ELSE /\ shown' = Show(p, Desc("Preparing download"))
                          /\ dn_message' = p
                          /\ LET b == convert_to_bytes(file.val.file_size)
                             IN IF b.raised
                                THEN proc' = [Crash(p, "ValueError") EXCEPT ![p].chan = file_id.val]
                                ELSE proc' = [proc EXCEPT ![p].pc = "d_loop",
                                                          ![p].chan = file_id.val,
                                                          ![p].total_files = file.val.num_files,
                                                          ![p].conv_size = file.val.file_size,
                                                          ![p].bytefilesize = b.value]
    /\ UNCHANGED <<rt, db, issued, channels, nextChan, upDirs, outputs, up_file_size, started>>

\* one iteration of the loop of lines 136-167, over the channel's history
\* oldest first: the progress is shown on self.message, the attachment is saved
\* under its own file name, the counters are updated
DownloadFetch(p) ==
    /\ proc[p].pc = "d_loop"
    /\ IF proc[p].chan \notin DOMAIN channels
       THEN \* the history of a channel that was deleted meanwhile
            /\ proc' = Crash(p, "NotFound")
            /\ UNCHANGED <<shown, downDirs>>
       ELSE /\ proc[p].idx < Len(channels[proc[p].chan].hist)
            /\ LET attachment == channels[proc[p].chan].hist[proc[p].idx + 1]
                   dir == DownDirAt(downDirs, proc[p].chan)
               IN /\ shown' = Show(dn_message, Progress(proc[p].counter, proc[p].total_files,
                                                        proc[p].done_size, proc[p].conv_size))
                  /\ IF ~dir.exists
                     THEN \* open(file_path, "wb") in a directory another download removed
                          /\ proc' = Crash(p, "FileNotFoundError")
                          /\ downDirs' = downDirs
                     ELSE /\ downDirs' = [downDirs EXCEPT ![proc[p].chan] =
                                 Overwrite(dir, (attachment.filename :> attachment.data))]
                          /\ proc' = [proc EXCEPT
                                 ![p].idx = @ + 1,
                                 ![p].counter = @ + 1,
                                 ![p].done_size = @ + ByteLen(attachment.data),
                                 ![p].remaining_size = proc[p].bytefilesize
                                     - (proc[p].done_size + ByteLen(attachment.data))]
    /\ UNCHANGED <<rt, db, issued, category, channels, nextChan, upDirs, outputs,
                   up_file_size, dn_message, started>>

\* download_files, lines 169-172, and merge_files: the history is exhausted,
\* the parts are merged into the output file, the end is reported on
\* self.message, the working directory is removed
DownloadMerge(p) ==
    /\ proc[p].pc = "d_loop"
    /\ proc[p].chan \in DOMAIN channels
    /\ proc[p].idx = Len(channels[proc[p].chan].hist)
    /\ LET file == GetFileByChannelId(db, proc[p].chan)
           dir == DownDirAt(downDirs, proc[p].chan)
       IN IF proc[p].counter = 0
          THEN \* line 170 reads elapsed_time, which only the loop body assigns
               /\ proc' = Crash(p, "UnboundLocalError")
               /\ UNCHANGED <<shown, outputs, downDirs>>
          ELSE IF ~dir.exists
          THEN \* os.listdir of a directory another download removed
               /\ proc' = Crash(p, "FileNotFoundError")
               /\ UNCHANGED <<shown, outputs, downDirs>>
          ELSE IF DOMAIN dir.files = {}
          THEN \* lines 195-199
               /\ proc' = End(p, "No Downloaded files found")
               /\ shown' = Show(dn_message, Desc("No Downloaded files found"))
               /\ UNCHANGED <<outputs, downDirs>>
          ELSE IF ~file.found
          THEN \* line 201: file['file_name'] of None
               /\ proc' = Crash(p, "TypeError")
               /\ UNCHANGED <<shown, outputs, downDirs>>
          ELSE \E err \in MergeErrs(dir.files) :
               \* lines 204-222: an OSError is logged, its edit is not awaited,
               \* and the end is reported and the directory removed all the same
               /\ outputs' = IF err = -1 THEN outputs
                              ELSE (OutputName(file.val) :> MergeFilesUpTo(dir.files, err))
                                   @@ outputs
               /\ shown' = Show(dn_message, Desc("Finished Download"))
               /\ downDirs' = [downDirs EXCEPT ![proc[p].chan] = NoDir]
               /\ proc' = [End(p, "Finished Download") EXCEPT
                              ![p].oserror = (err # Cardinality(DOMAIN dir.files))]
    /\ UNCHANGED <<rt, db, issued, category, channels, nextChan, upDirs,
                   up_file_size, dn_message, started>>

----------------------------------------------------------------------------
(* DeletionWorkflow: DeleteService.main, delete_file and its two callbacks *)

\* main putting the question whether or not the token resolved
DeleteStartAsks(p) ==
    /\ CanStart(p)
    /\ \E token \in Tokens :
         LET channel_id == Resolve(db, category, channels, token)
         IN /\ category' = (category \/ ReachesCategory(db, token))
            /\ proc' = [proc EXCEPT ![p] = [IdleProc EXCEPT !.kind = "delete",
                            !.pc = "x_ask", !.arg = token,
                            !.chan = IF channel_id.found THEN channel_id.val ELSE 0]]
            /\ shown' = Show(p, Desc("Preparing deletion"))
    /\ started' = started + 1
    /\ UNCHANGED <<rt, db, issued, channels, nextChan, upDirs, downDirs, outputs,
                   up_file_size, dn_message>>

\* main, lines 130-141: the token is resolved; "Preparing deletion" is sent
DeleteStart(p) ==
    /\ CanStart(p)
    /\ \E token \in Tokens :
         LET channel_id == Resolve(db, category, channels, token)
         IN /\ category' = (category \/ ReachesCategory(db, token))
            /\ IF channel_id.found
               THEN /\ proc' = [proc EXCEPT ![p] = [IdleProc EXCEPT !.kind = "delete",
                                    !.pc = "x_ask", !.arg = token, !.chan = channel_id.val]]
                    /\ shown' = Show(p, Desc("Preparing deletion"))
               ELSE /\ proc' = [proc EXCEPT ![p] = [IdleProc EXCEPT !.kind = "delete",
                                    !.pc = "done", !.arg = token,
                                    !.outcome = "Didnt find any file"]]
                    /\ shown' = Show(p, Desc("Didnt find any file"))
    /\ started' = started + 1
    /\ UNCHANGED <<rt, db, issued, channels, nextChan, upDirs, downDirs, outputs,
                   up_file_size, dn_message>>

\* delete_file, lines 49-110: the row is read for the name and the size, the
\* question is put with its two buttons
DeleteAsk(p) ==
    /\ proc[p].pc = "x_ask"
    /\ LET filedata == GetFileByChannelId(db, proc[p].chan)
       IN IF ~filedata.found
          THEN \* line 50: filedata['file_name'] of None
               /\ proc' = Crash(p, "TypeError")
               /\ shown' = shown
          ELSE /\ proc' = [proc EXCEPT ![p].pc = "x_wait",
                                       ![p].file_name = filedata.val.file_name,
                                       ![p].extension = filedata.val.file_type]
               /\ shown' = Show(p, Desc("Do you really want to delete this file?"))
    /\ UNCHANGED <<rt, db, issued, category, channels, nextChan, upDirs, downDirs, outputs,
                   up_file_size, dn_message, started>>

\* who presses a button of the question: the view has no interaction_check,
\* so the member who invoked the command or any other member who sees it
Clickers == {"requester", "other"}

\* the callback going on to the metadata deletion whether or not the channel
\* was removed
DeleteOkAnyway(p) ==
    /\ proc[p].pc = "x_wait"
    /\ \E removed \in BOOLEAN :
         channels' = IF removed /\ proc[p].chan \in DOMAIN channels
                     THEN [c \in (DOMAIN channels) \ {proc[p].chan} |-> channels[c]]
                     ELSE channels
    /\ proc' = Goto(p, "x_db")
    /\ UNCHANGED <<rt, db, issued, category, nextChan, upDirs, downDirs, outputs,
                   up_file_size, dn_message, shown, started>>

\* okbtn_callback, lines 71-73: fetch_channel and channel.delete(), either of
\* which may raise.  The callback runs for whoever presses the button.
DeleteOk(p) ==
    /\ proc[p].pc = "x_wait"
    /\ \E removed \in BOOLEAN, by \in Clickers :
         IF removed /\ proc[p].chan \in DOMAIN channels
         THEN /\ channels' = [c \in (DOMAIN channels) \ {proc[p].chan} |-> channels[c]]
              /\ proc' = [Goto(p, "x_db") EXCEPT ![p].clicked_by = by]
         ELSE /\ channels' = channels
              /\ proc' = [Crash(p, "channel not removed") EXCEPT ![p].clicked_by = by]
    /\ UNCHANGED <<rt, db, issued, category, nextChan, upDirs, downDirs, outputs,
                   up_file_size, dn_message, shown, started>>

\* the callback reporting success without looking at what the index returned
DeleteDbReportsSuccess(p) ==
    /\ proc[p].pc = "x_db"
    /\ \E removed \in BOOLEAN :
         db' = IF removed THEN HybridDelete(db, proc[p].chan).db ELSE db
    /\ proc' = End(p, "Successfully deleted")
    /\ shown' = Show(p, Desc("Successfully deleted"))
    /\ UNCHANGED <<rt, issued, category, channels, nextChan, upDirs, downDirs, outputs,
                   up_file_size, dn_message, started>>

\* okbtn_callback, lines 74-85: delete_by_channel_id and the final message
DeleteDb(p) ==
    /\ proc[p].pc = "x_db"
    /\ LET r == HybridDelete(db, proc[p].chan)
       IN /\ db' = r.db
          /\ IF r.result
             THEN /\ proc' = End(p, "Successfully deleted")
                  /\ shown' = Show(p, Desc("Successfully deleted"))
             ELSE /\ proc' = End(p, "No file in the database found")
                  /\ shown' = Show(p, Desc("No file in the database found"))
    /\ UNCHANGED <<rt, issued, category, channels, nextChan, upDirs, downDirs, outputs,
                   up_file_size, dn_message, started>>

\* the cancel button doing the work of the ok button
DeleteCancelRemoves(p) ==
    /\ proc[p].pc = "x_wait"
    /\ proc' = End(p, "Canceled deletion")
    /\ shown' = Show(p, Desc("Canceled deletion"))
    /\ channels' = [c \in (DOMAIN channels) \ {proc[p].chan} |-> channels[c]]
    /\ db' = HybridDelete(db, proc[p].chan).db
    /\ UNCHANGED <<rt, issued, category, nextChan, upDirs, downDirs, outputs,
                   up_file_size, dn_message, started>>

\* cancelbtn_callback, lines 97-101, for whoever presses the button
DeleteCancel(p) ==
    /\ proc[p].pc = "x_wait"
    /\ \E by \in Clickers : proc' = [End(p, "Canceled deletion") EXCEPT ![p].clicked_by = by]
    /\ shown' = Show(p, Desc("Canceled deletion"))
    /\ UNCHANGED <<rt, db, issued, category, channels, nextChan, upDirs, downDirs, outputs,
                   up_file_size, dn_message, started>>

----------------------------------------------------------------------------
(* The bot: any invocation takes its next step *)

Next ==
    \E p \in Procs :
        \/ UploadStart(p)
        \/ UploadMain(p)
        \/ UploadCat(p)
        \/ UploadCreate(p)
        \/ UploadSend(p)
        \/ UploadFinish(p)
        \/ UploadCleanup(p)
        \/ DownloadStart(p)
        \/ DownloadMain(p)
        \/ DownloadFetch(p)
        \/ DownloadMerge(p)
        \/ DeleteStart(p)
        \/ DeleteAsk(p)
        \/ DeleteOk(p)
        \/ DeleteDb(p)
        \/ DeleteCancel(p)

Spec == Init /\ [][Next]_vars

----------------------------------------------------------------------------
(* Properties of the bot *)

Rows(table) == {table[i] : i \in 1 .. Len(table)}

Finished(p) == proc[p].pc \in {"done", "crashed"}

\* C2: after a successful upload of a file of k parts the index holds exactly
\* one record of its channel, with num_files = k; a download by that record's
\* file_id that has ended left an output file equal to the source, byte for
\* byte; after a confirmed delete that reported success, get_files has no
\* record of that channel.
C2_EndToEnd ==
    \A p \in Procs :
      /\ (/\ proc[p].kind = "upload"
          /\ proc[p].outcome = "Finished Upload"
          /\ \A q \in Procs : proc[q].kind # "delete")
         => Cardinality({i \in 1 .. Len(GetFiles(db)) :
                /\ GetFiles(db)[i].channel_id = proc[p].chan
                /\ GetFiles(db)[i].num_files =
                       NumChunks(SourceFiles[proc[p].arg].size, chunk_size)}) = 1
      /\ (/\ proc[p].kind = "download"
          /\ Finished(p)
          /\ IsDigit(proc[p].arg)
          /\ \A q \in Procs \ {p} : proc[q].kind \in {"idle", "upload"})
         => \A r \in Rows(GetFiles(db)) :
              (/\ r.file_id = ParseInt(proc[p].arg)
               /\ r.channel_id = proc[p].chan
               /\ proc[r.user_id].outcome = "Finished Upload")
              => OutputAt(OutputName(r)) =
                     File(Whole(SourceFiles[proc[r.user_id].arg].src,
                                SourceFiles[proc[r.user_id].arg].size))
      /\ (/\ proc[p].kind = "delete"
          /\ proc[p].outcome = "Successfully deleted")
         => \A r \in Rows(GetFiles(db)) : r.channel_id # proc[p].chan

\* C4: an upload whose normalized channel name is the name of a live channel
\* of the category ends with "File already exists": the step that finds the
\* duplicate, and every later step of that upload, sends no part, creates no
\* channel and inserts no record; the channels with their histories and the
\* index stay as they were.
C4_Duplicate ==
    [][\A p \in Procs :
         /\ (/\ proc[p].pc \in {"u_main", "u_cat"}
             /\ proc'[p].pc \in {"u_create", "u_cleanup"}
             /\ ChannelNamed(channels, Normalize(proc[p].file_name)) # 0)
            => /\ proc'[p].pc = "u_cleanup"
               /\ proc'[p].outcome = "File already exists"
               /\ shown'[p] = Desc("File already exists")
               /\ channels' = channels
               /\ nextChan' = nextChan
               /\ db' = db
         /\ (proc[p].outcome = "File already exists" /\ proc'[p] # proc[p])
            => /\ channels' = channels
               /\ nextChan' = nextChan
               /\ db' = db
               /\ proc'[p].outcome = "File already exists"
      ]_vars

\* C4, its case: the upload of "A!.b" has ended as a duplicate of the live
\* channel "a", which holds the parts and the record of the upload of "a.t"
C4_Witness ==
    \E p \in Procs : \E r \in Rows(GetFiles(db)) :
        /\ proc[p].kind = "upload" /\ proc[p].arg = PathB
        /\ proc[p].pc = "done" /\ proc[p].outcome = "File already exists"
        /\ shown[p] = Desc("File already exists")
        /\ r.file_name = FileNameOf(PathA)
        /\ r.channel_id \in DOMAIN channels
        /\ channels[r.channel_id].name = <<"a">>
        /\ Len(channels[r.channel_id].hist) = 1
        /\ DOMAIN channels = {r.channel_id}

\* C5: a token made only of decimal digits that is the file_id of a live
\* record resolves to that record's channel_id, whatever records have the
\* token as file_name and whatever live channels are named like the token.
C5_IdFirst ==
    \A token \in Tokens : \A r \in Rows(GetFiles(db)) :
        (IsDigit(token) /\ r.file_id = ParseInt(token))
        => Resolve(db, category, channels, token) = Some(r.channel_id)

\* C5, its case: the record with file_id 1, another record whose file_name is
\* "1" in a live channel named "1", and an invocation given the token "1" that
\* went on with the channel of the first
C5_Witness ==
    \E r1, r2 \in Rows(GetFiles(db)) : \E p \in Procs :
        /\ r1.file_id = 1
        /\ r2.file_name = <<"1">>
        /\ r2.channel_id # r1.channel_id
        /\ ChannelNamed(channels, <<"1">>) = r2.channel_id
        /\ proc[p].kind \in {"download", "delete"}
        /\ proc[p].arg = <<"1">>
        /\ proc[p].chan = r1.channel_id

\* C6: once a delete has reported success, find_by_channel_id finds no record
\* of its channel and the channel does not exist; a delete whose channel
\* removal failed has left the index as it was, and the record is still there
\* unless another delete of the same channel has removed it.
C6_Paired ==
    [][\A p \in Procs :
         /\ (proc'[p].outcome = "Successfully deleted")
            => /\ ~FindByChannelId(db', proc'[p].chan).found
               /\ proc'[p].chan \notin DOMAIN channels'
         /\ (proc'[p].outcome = "channel not removed" /\ proc'[p] # proc[p])
            => db' = db
         /\ (/\ proc'[p].outcome = "channel not removed"
             /\ \A q \in Procs \ {p} :
                  ~(proc'[q].kind = "delete" /\ proc'[q].chan = proc'[p].chan))
            => FindByChannelId(db', proc'[p].chan).found
      ]_vars

\* C6, its case: one delete failed to remove the channel and left the record,
\* a later delete of the same file removed the channel and then the record
C6_Witness ==
    \E p, q \in Procs :
        /\ proc[p].kind = "delete" /\ proc[p].outcome = "channel not removed"
        /\ proc[q].kind = "delete" /\ proc[q].outcome = "Successfully deleted"
        /\ proc[q].chan = proc[p].chan
        /\ shown[q] = Desc("Successfully deleted")
        /\ proc[q].chan \notin DOMAIN channels
        /\ GetFiles(db) = <<>>

\* C8: in every state reached by uploads and deletes, no two records of a
\* store have the same channel_id.
C8_OnePerContainer ==
    \A table \in {db.local, db.cloud} :
        \A i, j \in 1 .. Len(table) :
            table[i].channel_id = table[j].channel_id => i = j

\* C8, its case: a file was uploaded, deleted with success and uploaded again,
\* and the local store holds the rows of both uploads
C8_Witness ==
    /\ Len(db.local) >= 2
    /\ db.local[1].file_name = db.local[2].file_name
    /\ \E p \in Procs : proc[p].outcome = "Successfully deleted"

\* C9: the step of an upload that inserts a record is taken with no part left
\* to send; the record's channel exists and its history holds exactly the
\* num_files parts of the upload.
C9_RecordAfterParts ==
    [][\A p \in Procs :
         (Len(db'.local) > Len(db.local) /\ proc'[p] # proc[p])
         => LET r == db'.local[Len(db'.local)]
            IN /\ proc[p].kind = "upload"
               /\ proc[p].files = {}
               /\ r.channel_id = proc[p].chan
               /\ r.channel_id \in DOMAIN channels'
               /\ Len(channels'[r.channel_id].hist) = r.num_files
               /\ {channels'[r.channel_id].hist[i].filename : i \in 1 .. r.num_files}
                    = {ChunkFilename(proc[p].file_name, i) : i \in 0 .. r.num_files - 1}
      ]_vars

\* C9, its case: the upload of a file of two parts has inserted its record
C9_Witness ==
    \E p \in Procs : \E r \in Rows(GetFiles(db)) :
        /\ proc[p].kind = "upload" /\ proc[p].outcome = "Finished Upload"
        /\ proc[p].arg = PathB
        /\ r.channel_id = proc[p].chan
        /\ r.num_files = 2
        /\ Len(channels[r.channel_id].hist) = 2

\* C10: an upload that runs while only uploads of other files run shows the
\* progress totals it would show alone: the total is the size label of its own
\* file.
C10_Isolated ==
    \A p \in Procs :
        (/\ proc[p].kind = "upload"
         /\ proc[p].pc = "u_loop"
         /\ \A q \in Procs \ {p} :
              \/ proc[q].kind = "idle"
              \/ /\ proc[q].kind = "upload"
                 /\ proc[q].arg # proc[p].arg
                 /\ Normalize(proc[q].file_name) # Normalize(proc[p].file_name))
        => proc[p].conv_size = convert_size(SourceFiles[proc[p].arg].size)

\* the descriptions that end an invocation: a success or a specific failure
TerminalStatuses ==
    {Desc(t) : t \in {"Finished Upload", "File already exists", "doesnt exist",
                      "Failed to split the file",
                      "Finished Download", "Didn't find any file", "No category found",
                      "No text channel found", "No Downloaded files found",
                      "Successfully deleted", "Didnt find any file",
                      "No file in the database found", "Canceled deletion"}}

\* C11: an invocation that has returned shows one terminal status to its
\* requester, a success or a specific failure; once a terminal status is shown
\* nothing replaces it, neither a progress update nor another status.
C11_OneTerminalStatus ==
    [][\A p \in Procs :
         /\ proc'[p].pc = "done" => shown'[p] \in TerminalStatuses
         /\ shown[p] \in TerminalStatuses => shown'[p] = shown[p]
      ]_vars

\* C12: a delete that the requester declines has no side effect: none of its
\* steps (the resolution, the question, the cancel callback) removes or
\* creates a channel, changes a history or changes the index.
C12_DeclineNoEffect ==
    [][\A p \in Procs :
         (/\ proc'[p] # proc[p]
          /\ proc'[p].kind = "delete"
          /\ \/ proc'[p].pc \in {"x_ask", "x_wait"}
             \/ proc'[p].outcome = "Canceled deletion")
         => /\ channels' = channels
            /\ category' = category
            /\ db' = db
      ]_vars

\* C12, its case: a delete of a stored file has been declined; the channel with
\* its part and the record are there
C12_Witness ==
    \E p \in Procs :
        /\ proc[p].kind = "delete"
        /\ proc[p].pc = "done" /\ proc[p].outcome = "Canceled deletion"
        /\ shown[p] = Desc("Canceled deletion")
        /\ proc[p].chan \in DOMAIN channels
        /\ Len(channels[proc[p].chan].hist) >= 1
        /\ FindByChannelId(db, proc[p].chan).found

\* C14: at a constant transfer rate the remaining time computed after a part
\* is the remaining bytes divided by that rate, so it decreases strictly from
\* one part to the next exactly when the remaining bytes do: after every part
\* but the first of an upload or a download, remaining_size is smaller than it
\* was after the part before.  Stated for the invocations whose file no other
\* upload has been invoked for.
C14_EtaDecreases ==
    [][\A p \in Procs :
         (/\ proc[p].kind \in {"upload", "download"}
          /\ proc[p].counter >= 1
          /\ proc'[p].counter = proc[p].counter + 1
          /\ \A q \in Procs \ {p} :
               ~(proc[q].kind = "upload" /\ proc[q].file_name = proc[p].file_name))
         => proc'[p].remaining_size < proc[p].remaining_size
      ]_vars

\* C21: get_file_channel_id returns None or the channel_id of a record that
\* is in the index at the time of the call; a token that is neither the
\* file_id nor the base name of a record, and that names no live channel or
\* a live channel without a record, resolves to None.
C21_ResolveSafe ==
    \A token \in Tokens :
        LET r == Resolve(db, category, channels, token)
            live == {c \in DOMAIN channels : category /\ channels[c].name = token}
        IN /\ r.found => \E row \in Rows(GetFiles(db)) : row.channel_id = r.val
           /\ (/\ \A row \in Rows(GetFiles(db)) :
                     /\ ~(IsDigit(token) /\ row.file_id = ParseInt(token))
                     /\ row.file_name # SplitextRoot(Basename(token))
               /\ \A c \in live : \A row \in Rows(GetFiles(db)) : row.channel_id # c)
              => ~r.found

\* C21, its case: a live channel named "a" that has no record (its upload
\* failed while sending), and a download or delete of "a" that found nothing
C21_Witness ==
    \E p, q \in Procs :
        /\ proc[q].kind = "upload" /\ proc[q].outcome = "send failed"
        /\ proc[q].chan \in DOMAIN channels
        /\ channels[proc[q].chan].name = <<"a">>
        /\ ChannelNamed(channels, <<"a">>) = proc[q].chan
        /\ GetFiles(db) = <<>>
        /\ proc[p].kind \in {"download", "delete"}
        /\ proc[p].arg = <<"a">>
        /\ proc[p].outcome \in {"Didn't find any file", "Didnt find any file"}
        /\ ~Resolve(db, category, channels, <<"a">>).found

\* the records of the index whose channel exists
LiveRows == {i \in 1 .. Len(GetFiles(db)) : GetFiles(db)[i].channel_id \in DOMAIN channels}

\* the file name a record was uploaded under: file_name and extension
OriginalName(r) ==
    IF r.file_type = <<>> THEN r.file_name ELSE r.file_name \o <<".">> \o r.file_type

\* a token that an earlier lookup of get_file_channel_id answers with another
\* record than the i-th: it is the file_id of one, or the base name of one
\* that find_by_filename meets first
TakenBefore(token, i) ==
    LET t == GetFiles(db)
    IN \/ IsDigit(token) /\ \E j \in 1 .. Len(t) : j # i /\ t[j].file_id = ParseInt(token)
       \/ \E j \in 1 .. Len(t) :
            /\ t[j].file_name = SplitextRoot(Basename(token))
            /\ j < i \/ (j # i /\ t[i].file_name # SplitextRoot(Basename(token)))

\* C22 as stated: for every record whose channel exists, the decimal file_id,
\* the original file name and the name of the channel each resolve to the
\* record's channel_id.
C22_ResolvesAll ==
    \A i \in LiveRows :
        LET r == GetFiles(db)[i]
        IN /\ Resolve(db, category, channels, DecStr(r.file_id)) = Some(r.channel_id)
           /\ Resolve(db, category, channels, OriginalName(r)) = Some(r.channel_id)
           /\ Resolve(db, category, channels, channels[r.channel_id].name)
                = Some(r.channel_id)

\* C22: for every record whose channel exists, the decimal file_id resolves to
\* the record's channel_id; so does the original file name unless an earlier
\* lookup answers it with another record; so does the name of the channel
\* unless an earlier lookup answers it with another record or an older live
\* channel has the same name.
C22_Resolves ==
    \A i \in LiveRows :
        LET r == GetFiles(db)[i]
            name == channels[r.channel_id].name
        IN /\ Resolve(db, category, channels, DecStr(r.file_id)) = Some(r.channel_id)
           /\ ~TakenBefore(OriginalName(r), i)
              => Resolve(db, category, channels, OriginalName(r)) = Some(r.channel_id)
           /\ (/\ ~TakenBefore(name, i)
               /\ \A c \in DOMAIN channels : channels[c].name = name => r.channel_id <= c)
              => Resolve(db, category, channels, name) = Some(r.channel_id)

\* C22, its case: the record of "A!.b" in its live channel "a"; the file_id,
\* "A!.b" and "a" all resolve to that channel, the last by the third lookup,
\* and a download or delete given "a" went on with it
C22_Witness ==
    \E i \in LiveRows : \E p \in Procs :
        LET r == GetFiles(db)[i]
        IN /\ r.file_name = FileNameOf(PathB)
           /\ channels[r.channel_id].name = <<"a">>
           /\ ~FindByFilename(db, <<"a">>).found
           /\ Resolve(db, category, channels, DecStr(r.file_id)) = Some(r.channel_id)
           /\ Resolve(db, category, channels, PathB) = Some(r.channel_id)
           /\ Resolve(db, category, channels, <<"a">>) = Some(r.channel_id)
           /\ proc[p].kind \in {"download", "delete"}
           /\ proc[p].arg = <<"a">>
           /\ proc[p].chan = r.channel_id

\* C23: the parts of an upload are sent in ascending order of their index:
\* the history of every channel, oldest first, lists the parts 0, 1, 2, ...
C23_AscendingParts ==
    \A c \in DOMAIN channels :
        \A i \in 1 .. Len(channels[c].hist) :
            SuffixKey(channels[c].hist[i].filename) = i - 1

PartsAfterFailure(dir, path) ==
    LET f == SourceFiles[path]
        idx == 0 .. (NumChunks(f.size, chunk_size) - 1)
    IN /\ dir.exists
       /\ \A i \in idx :
            /\ ChunkFilename(FileNameOf(path), i) \in DOMAIN dir.files
            /\ dir.files[ChunkFilename(FileNameOf(path), i)]
                 \in {<<>>, ChunkData(f.src, f.size, chunk_size, i)}
       /\ \E i \in idx : dir.files[ChunkFilename(FileNameOf(path), i)] = <<>>

\* C25: an upload whose source path does not exist, or whose split_file saved
\* fewer parts than expected, ends at that step: no channel is created, no
\* part is sent, no record is inserted; after a failed split the part files
\* written are in the working directory.
C25_AbortBeforeSending ==
    [][\A p \in Procs :
         /\ (/\ proc[p].pc = "u_main" /\ proc'[p].pc # "u_main"
             /\ proc[p].arg \notin DOMAIN SourceFiles)
            => proc'[p].outcome = "doesnt exist"
         /\ (/\ proc'[p].outcome \in {"doesnt exist", "Failed to split the file"}
             /\ proc'[p] # proc[p])
            => /\ proc[p].pc = "u_main"
               /\ proc'[p].pc = "done"
               /\ channels' = channels
               /\ nextChan' = nextChan
               /\ db' = db
               /\ proc'[p].outcome = "Failed to split the file"
                  => PartsAfterFailure(upDirs'[proc[p].file_name], proc[p].arg)
      ]_vars

\* C25, its case: the split of "A!.b" failed on part 0; part 1 is in the
\* working directory, there is no channel and no record
C25_Witness ==
    \E p \in Procs :
        /\ proc[p].kind = "upload" /\ proc[p].arg = PathB
        /\ proc[p].pc = "done" /\ proc[p].outcome = "Failed to split the file"
        /\ upDirs[FileNameOf(PathB)].exists
        /\ upDirs[FileNameOf(PathB)].files[ChunkFilename(FileNameOf(PathB), 1)]
             = ChunkData(2, chunk_size + 1, chunk_size, 1)
        /\ upDirs[FileNameOf(PathB)].files[ChunkFilename(FileNameOf(PathB), 0)] = <<>>
        /\ channels = <<>>
        /\ GetFiles(db) = <<>>

\* C26: when the send of a part fails, the upload ends there with the error;
\* that step and all that follows insert no record for its channel, and the
\* channel stays with the parts sent before.
C26_NoRollback ==
    [][\A p \in Procs :
         /\ (proc'[p].outcome = "send failed" /\ proc'[p] # proc[p])
            => /\ proc[p].pc = "u_loop"
               /\ proc'[p].pc = "crashed"
               /\ channels' = channels
               /\ db' = db
         /\ proc'[p].outcome = "send failed"
            => /\ proc'[p].chan \in DOMAIN channels'
               /\ Len(channels'[proc'[p].chan].hist) = proc'[p].counter
               /\ \A r \in Rows(db'.local) \cup Rows(db'.cloud) :
                    r.channel_id # proc'[p].chan
      ]_vars

\* C26, its case: the upload of "A!.b" sent one part, the send of the other
\* failed; the channel holds the one part and the index has no record
C26_Witness ==
    \E p \in Procs :
        /\ proc[p].kind = "upload" /\ proc[p].arg = PathB
        /\ proc[p].pc = "crashed" /\ proc[p].outcome = "send failed"
        /\ proc[p].counter = 1
        /\ proc[p].chan \in DOMAIN channels
        /\ Len(channels[proc[p].chan].hist) = 1
        /\ GetFiles(db) = <<>>
        /\ \A q \in Procs \ {p} : proc[q].kind = "idle"

C28_ConfirmedFirst ==
    [][\A p \in Procs :
         (proc'[p].kind = "delete" /\ proc'[p] # proc[p])
         => /\ channels' # channels
               => /\ proc[p].pc = "x_wait"
                  /\ proc'[p].clicked_by = "requester"
            /\ db' # db
               => /\ proc[p].pc = "x_db"
                  /\ proc[p].clicked_by = "requester"
                  /\ proc[p].chan \notin DOMAIN channels
      ]_vars

\* C29: when writing the merged output raises an error, the download does
\* not end with the success status, and the part files downloaded stay in
\* the working directory.
C29_MergeFailure ==
    [][\A p \in Procs :
         (proc'[p].oserror /\ ~proc[p].oserror)
         => /\ proc'[p].outcome # "Finished Download"
            /\ shown'[dn_message] # Desc("Finished Download")
            /\ DownDirAt(downDirs', proc[p].chan) = DownDirAt(downDirs, proc[p].chan)
      ]_vars

\* C30: a download that finds the category or the channel of its record
\* missing ends at that step with the status that says so, before any work:
\* no part is fetched, no working directory is made, no output is written.
C30_MissingContainer ==
    [][\A p \in Procs :
         (/\ proc'[p].outcome \in {"No category found", "No text channel found"}
          /\ proc'[p] # proc[p])
         => /\ proc'[p].pc = "done"
            /\ shown'[p] = Desc(proc'[p].outcome)
            /\ proc'[p].counter = 0
            /\ outputs' = outputs
            /\ downDirs' = downDirs
      ]_vars

\* a record of the index whose channel is not in the guild
Orphan(ch) == FindByChannelId(db, ch).found /\ ch \notin DOMAIN channels

\* C31: for a record whose channel no longer exists the token still resolves
\* to the channel id of the record, and the step of a download that looks for
\* the channel, like the step of a delete that follows the press of Ok, ends
\* the invocation with a status that reports the missing channel, is not an
\* unhandled error, and leaves the record in the index.
C31_OrphanReported ==
    [][\A p \in Procs :
         /\ (/\ proc[p].pc = "d_main"
             /\ proc'[p] # proc[p]
             /\ Resolve(db, category, channels, proc[p].arg).found
             /\ Orphan(Resolve(db, category, channels, proc[p].arg).val))
            => /\ proc'[p].pc = "done"
               /\ proc'[p].outcome \in {"No category found", "No text channel found"}
               /\ shown'[p] = Desc(proc'[p].outcome)
               /\ db' = db
         /\ (/\ proc[p].pc = "x_wait"
             /\ proc'[p] # proc[p]
             /\ proc'[p].outcome # "Canceled deletion"
             /\ Orphan(proc[p].chan))
            => /\ proc'[p].pc = "done"
               /\ shown'[p] = Desc(proc'[p].outcome)
               /\ db' = db
      ]_vars

\* the two texts that report a token that did not resolve
NotFoundStatuses == {"Didn't find any file", "Didnt find any file"}

\* C32: the step of a download or of a delete in which the token does not
\* resolve ends the invocation with the not-found status shown, and in that
\* step no part is fetched, no working directory and no output file is made,
\* no channel is removed, no question is put and the index stays as it was;
\* the not-found status is given in no other step.
C32_NotFoundNoEffect ==
    [][\A p \in Procs :
         LET resolving == \/ proc[p].pc = "d_main"
                          \/ proc[p].pc = "idle" /\ proc'[p].kind = "delete"
             absent == ~Resolve(db, category, channels, proc'[p].arg).found
         IN /\ (resolving /\ absent /\ proc'[p] # proc[p])
               => /\ proc'[p].pc = "done"
                  /\ proc'[p].outcome \in NotFoundStatuses
                  /\ shown'[p] = Desc(proc'[p].outcome)
                  /\ proc'[p].counter = 0
                  /\ downDirs' = downDirs
                  /\ outputs' = outputs
                  /\ channels' = channels
                  /\ db' = db
            /\ (proc'[p].outcome \in NotFoundStatuses /\ proc'[p] # proc[p])
               => resolving /\ absent
      ]_vars

\* a download and a delete have both ended on a token that did not resolve
C32_Witness ==
    \E p, q \in Procs :
        /\ proc[p].kind = "download" /\ proc[p].pc = "done"
        /\ proc[p].outcome = "Didn't find any file"
        /\ proc[q].kind = "delete" /\ proc[q].pc = "done"
        /\ proc[q].outcome = "Didnt find any file"
        /\ Len(GetFiles(db)) > 0

\* an upload between its split and its rmtree works in files/upload/<name>
UsesUpDir(p, name) ==
    /\ proc[p].kind = "upload"
    /\ proc[p].pc \in {"u_cat", "u_create", "u_loop", "u_cleanup"}
    /\ proc[p].file_name = name

\* a download between its mkdir and its rmtree works in files/download/<channel>
UsesDownDir(p, ch) ==
    /\ proc[p].kind = "download"
    /\ proc[p].pc = "d_loop"
    /\ proc[p].chan = ch

\* C33: a working directory is used by one operation at a time: a step of an
\* invocation that creates or removes a working directory, or writes part
\* files into it, is never taken while another running invocation is working
\* in that directory.
C33_ExclusiveDirs ==
    [][\A p \in Procs :
         proc'[p] # proc[p]
         => /\ \A name \in UploadNames :
                 upDirs'[name] # upDirs[name]
                 => \A q \in Procs \ {p} : ~UsesUpDir(q, name)
            /\ \A ch \in DOMAIN downDirs' :
                 DownDirAt(downDirs', ch) # DownDirAt(downDirs, ch)
                 => \A q \in Procs \ {p} : ~UsesDownDir(q, ch)
      ]_vars

\* C34: in the state in which an upload has ended with "Finished Upload" the
\* upload working directory of its file name does not exist, and in the state
\* in which a download has ended with its merge written in full the download
\* working directory of its channel does not exist.
C34_DirsRemoved ==
    [][\A p \in Procs :
         (proc'[p] # proc[p] /\ proc'[p].pc = "done")
         => /\ proc'[p].outcome = "Finished Upload"
               => ~upDirs'[proc'[p].file_name].exists
            /\ (proc'[p].outcome = "Finished Download" /\ ~proc'[p].oserror)
               => ~DownDirAt(downDirs', proc'[p].chan).exists
      ]_vars

\* an upload has ended with its parts sent and its record made, a download of
\* that record has ended with the output written, and neither directory exists
C34_Witness ==
    \E p, q \in Procs :
        /\ proc[p].kind = "upload" /\ proc[p].pc = "done"
        /\ proc[p].outcome = "Finished Upload"
        /\ proc[p].counter = proc[p].total_files /\ proc[p].counter > 0
        /\ ~upDirs[proc[p].file_name].exists
        /\ proc[q].kind = "download" /\ proc[q].pc = "done"
        /\ proc[q].outcome = "Finished Download" /\ ~proc[q].oserror
        /\ proc[q].chan = proc[p].chan
        /\ proc[q].chan \in DOMAIN downDirs
        /\ ~downDirs[proc[q].chan].exists
        /\ OutputAt(proc[p].file_name \o proc[p].extension) # NoFile

\* the part files that split_file writes for the file at path
OwnParts(path) ==
    LET f == SourceFiles[path]
    IN [n \in {ChunkFilename(FileNameOf(path), i) :
                    i \in 0 .. NumChunks(f.size, chunk_size) - 1} |->
            LET i == CHOOSE j \in 0 .. NumChunks(f.size, chunk_size) - 1 :
                         ChunkFilename(FileNameOf(path), j) = n
            IN ChunkData(f.src, f.size, chunk_size, i)]

\* every other upload of the file name of p is over, having failed at its
\* split or at a send
AfterFailedUploads(p) ==
    \A q \in Procs \ {p} :
        (proc[q].kind = "upload" /\ proc[q].file_name = proc[p].file_name)
        => \/ proc[q].pc = "done" /\ proc[q].outcome = "Failed to split the file"
           \/ proc[q].pc = "crashed" /\ proc[q].outcome = "send failed"

\* C35: an upload that runs when every other upload of its file name has
\* failed at the split or at a send takes for sending exactly the part files
\* its own split wrote, sends each with the bytes of its own file, and
\* records as part count the number of parts of its own file.
C35_OwnPartsOnly ==
    [][\A p \in Procs :
         (proc[p].kind = "upload" /\ AfterFailedUploads(p) /\ proc'[p] # proc[p])
         => /\ (proc[p].pc = "u_create" /\ proc'[p].pc = "u_loop")
               => /\ proc'[p].files = DOMAIN OwnParts(proc[p].arg)
                  /\ proc'[p].total_files = Cardinality(DOMAIN OwnParts(proc[p].arg))
            /\ (proc[p].pc = "u_loop" /\ proc'[p].counter > proc[p].counter)
               => LET hist == channels'[proc[p].chan].hist
                      sent == hist[Len(hist)]
                  IN /\ sent.filename \in DOMAIN OwnParts(proc[p].arg)
                     /\ sent.data = OwnParts(proc[p].arg)[sent.filename]
            /\ Len(GetFiles(db')) > Len(GetFiles(db))
               => GetFiles(db')[Len(GetFiles(db'))].num_files
                    = NumChunks(SourceFiles[proc[p].arg].size, chunk_size)
      ]_vars

\* C36: the size label of every record that an upload stored is converted by
\* convert_to_bytes into a byte count, and no download ends in the error
\* that the conversion raises.
C36_LabelsConvert ==
    /\ \A r \in Rows(GetFiles(db)) : ~convert_to_bytes(r.file_size).raised
    /\ \A p \in Procs : ~(proc[p].kind = "download" /\ proc[p].outcome = "ValueError")

\* C37: whatever a download, or an upload beside which no other upload was
\* invoked, shows or computes as progress, the parts done do not exceed the
\* parts in all and the bytes done do not exceed the byte total, so that the
\* remaining size the ETA is computed from is not negative.
C37_ProgressBounded ==
    \A p \in Procs :
        (\/ proc[p].kind = "download"
         \/ proc[p].kind = "upload" /\ \A q \in Procs \ {p} : proc[q].kind # "upload")
        => /\ proc[p].counter <= proc[p].total_files
           /\ shown[p].parts_done <= shown[p].parts_total
           /\ proc[p].remaining_size >= 0

----------------------------------------------------------------------------
(* The bot used by one requester at a time: an upload or a delete is invoked  *)
(* when no other invocation is under way, and nothing fails: the source file  *)
(* exists and is split in full, every send and every channel removal works.   *)

\* the ends that a failure gives an invocation
Failed(i) ==
    \/ i.pc = "crashed"
    \/ i.outcome \in {"doesnt exist", "Failed to split the file"}

\* no other invocation is under way
Alone(p) == \A q \in Procs \ {p} : ~Running(q)

\* the step does not end the invocation in a failure
Succeeds(p) == ~Failed(proc'[p])

NextSeq ==
    \E p \in Procs :
        \/ Alone(p) /\ UploadStart(p) /\ Succeeds(p)
        \/ Alone(p) /\ UploadMain(p) /\ Succeeds(p)
        \/ Alone(p) /\ UploadCat(p) /\ Succeeds(p)
        \/ Alone(p) /\ UploadCreate(p) /\ Succeeds(p)
        \/ Alone(p) /\ UploadSend(p) /\ Succeeds(p)
        \/ Alone(p) /\ UploadFinish(p) /\ Succeeds(p)
        \/ Alone(p) /\ UploadCleanup(p) /\ Succeeds(p)
        \/ Alone(p) /\ DeleteStart(p) /\ Succeeds(p)
        \/ Alone(p) /\ DeleteAsk(p) /\ Succeeds(p)
        \/ Alone(p) /\ DeleteOk(p) /\ Succeeds(p)
        \/ Alone(p) /\ DeleteDb(p) /\ Succeeds(p)

SpecSeq == Init /\ [][NextSeq]_vars

\* C38: when uploads and confirmed deletes run one after the other and none
\* fails, no two records of the store that the lookups read have the same
\* file_name, so that find_by_filename has at most one record to return.
C38_UniqueBaseNames ==
    \A i, j \in 1 .. Len(GetFiles(db)) :
        GetFiles(db)[i].file_name = GetFiles(db)[j].file_name => i = j

\* two files are stored and a further upload of the first one was refused
C38_Witness ==
    /\ Len(GetFiles(db)) = 2
    /\ \E p \in Procs :
         /\ proc[p].kind = "upload" /\ proc[p].pc = "done"
         /\ proc[p].outcome = "File already exists"
         /\ proc[p].file_name = GetFiles(db)[1].file_name

----------------------------------------------------------------------------
(* The metadata index on its own: inserts and deletes through HybridDBhandler *)

DbChannels == 1 .. 3

DbNames == { <<"a">>, <<"b">> }

InitDB ==
    /\ \E uc \in BOOLEAN : db = EmptyDb(uc)
    /\ issued = NoIssued
    /\ rt = [phase |-> "off"]
    /\ BotOff

DbInsert ==
    /\ Len(issued.local) < MaxInserts
    /\ \E ch \in DbChannels, fn \in DbNames :
         LET row == Row(1, ch, fn, <<"1", "0", "M", "B">>, <<"t">>, 1)
         IN /\ db' = HybridInsert(db, row)
            /\ issued' = IssuedBy(db, row)
    /\ UNCHANGED rt
    /\ UNCHANGED botVars

DbDelete ==
    /\ \E ch \in DbChannels : db' = HybridDelete(db, ch).db
    /\ UNCHANGED <<rt, issued>>
    /\ UNCHANGED botVars

NextDB == DbInsert \/ DbDelete

SpecDB == InitDB /\ [][NextDB]_vars

NoRepeat(s) == \A i, j \in 1 .. Len(s) : i # j => s[i] # s[j]

\* C7: in either backend, a file_id once given to a record is never given to a
\* later record, also after the record that held it was deleted.
C7_NoReuse == NoRepeat(issued.local) /\ NoRepeat(issued.cloud)

\* C20: with the cloud store selected, an operation of HybridDBhandler leaves
\* the local store as it was; with the local store selected, it leaves the
\* cloud store and its counter as they were.
C20_OnlySelectedStore ==
    [][/\ db.use_cloud => db'.local = db.local
       /\ ~db.use_cloud => /\ db'.cloud = db.cloud
                           /\ db'.counter = db.counter
      ]_vars

----------------------------------------------------------------------------
(* The two stores side by side: every call goes to LocalDBManager and to      *)
(* CloudDBManager with the same arguments.  rt keeps the number of inserts,   *)
(* whether a row was ever deleted, the channel ids used, the arguments of     *)
(* the inserts whose channel was not deleted since, and the last call with    *)
(* what either manager returned.  A channel id is used for one insert only,   *)
(* as the guild never gives the id of a channel to a second channel.          *)

IxChannels == 11 .. 13

IxUsers == {7, 8}

IxIds == { <<"1">>, <<"2">>, <<"3">> }

IxNames == DbNames \cup { <<"c">> }

InitIx ==
    /\ db = EmptyDb(FALSE)
    /\ issued = NoIssued
    /\ rt = [phase |-> "stores", inserts |-> 0, deleted |-> FALSE, used |-> {},
             expected |-> <<>>, call |-> [op |-> "none"]]
    /\ BotOff

\* insert_file on both managers
IxInsert ==
    /\ rt.inserts < MaxInserts
    /\ \E ch \in IxChannels \ rt.used, u \in IxUsers, fn \in DbNames :
         LET row == Row(u, ch, fn, <<"1", "0", "M", "B">>, <<"t">>, 1)
         IN /\ db' = [CloudInsert(db, row) EXCEPT !.local = LocalInsert(db.local, row)]
            /\ rt' = [rt EXCEPT !.inserts = rt.inserts + 1,
                                !.used = rt.used \cup {ch},
                                !.expected = Append(rt.expected, row),
                                !.call = [op |-> "insert", arg |-> row]]
    /\ UNCHANGED issued
    /\ UNCHANGED botVars

\* delete_by_channel_id on both managers
IxDelete ==
    /\ \E ch \in IxChannels :
         LET l == StoreDelete(db.local, ch)
             c == StoreDelete(db.cloud, ch)
             Others(r) == r.channel_id # ch
         IN /\ db' = [db EXCEPT !.local = l.table, !.cloud = c.table]
            /\ rt' = [rt EXCEPT !.deleted = rt.deleted \/ l.result,
                                !.expected = SelectSeq(rt.expected, Others),
                                !.call = [op |-> "delete", arg |-> ch,
                                          local |-> Returned(l.result),
                                          cloud |-> Returned(c.result)]]
    /\ UNCHANGED issued
    /\ UNCHANGED botVars

\* get_files on both managers
IxGetFiles ==
    /\ rt' = [rt EXCEPT !.call = [op |-> "get_files", arg |-> 0,
                                  local |-> Returned(LocalGetFiles(db.local)),
                                  cloud |-> Returned(CloudGetFiles(db.cloud))]]
    /\ UNCHANGED <<db, issued>>
    /\ UNCHANGED botVars

\* find_by_id on both managers
IxFindById ==
    /\ \E file_id \in IxIds :
         rt' = [rt EXCEPT !.call = [op |-> "find_by_id", arg |-> file_id,
                                    local |-> StoreFindById(db.local, file_id),
                                    cloud |-> StoreFindById(db.cloud, file_id)]]
    /\ UNCHANGED <<db, issued>>
    /\ UNCHANGED botVars

\* find_by_filename on both managers
IxFindByFilename ==
    /\ \E filename \in IxNames :
         rt' = [rt EXCEPT !.call = [op |-> "find_by_filename", arg |-> filename,
                                    local |-> StoreFindByFilename(db.local, filename),
                                    cloud |-> StoreFindByFilename(db.cloud, filename)]]
    /\ UNCHANGED <<db, issued>>
    /\ UNCHANGED botVars

\* find_by_channel_id on both managers
IxFindByChannelId ==
    /\ \E ch \in IxChannels :
         rt' = [rt EXCEPT !.call = [op |-> "find_by_channel_id", arg |-> ch,
                                    local |-> StoreFindByChannelId(db.local, ch),
                                    cloud |-> StoreFindByChannelId(db.cloud, ch)]]
    /\ UNCHANGED <<db, issued>>
    /\ UNCHANGED botVars

\* find_name_by_channel_id on both managers
IxFindName ==
    /\ \E ch \in IxChannels :
         rt' = [rt EXCEPT !.call = [op |-> "find_name_by_channel_id", arg |-> ch,
                                    local |-> LocalFindName(db.local, ch),
                                    cloud |-> CloudFindName(db.cloud, ch)]]
    /\ UNCHANGED <<db, issued>>
    /\ UNCHANGED botVars

\* find_fullname_by_channel_id on both managers
IxFindFullname ==
    /\ \E ch \in IxChannels :
         rt' = [rt EXCEPT !.call = [op |-> "find_fullname_by_channel_id", arg |-> ch,
                                    local |-> LocalFindFullname(db.local, ch),
                                    cloud |-> CloudFindFullname(db.cloud, ch)]]
    /\ UNCHANGED <<db, issued>>
    /\ UNCHANGED botVars

NextIx ==
    \/ IxInsert
    \/ IxDelete
    \/ IxGetFiles
    \/ IxFindById
    \/ IxFindByFilename
    \/ IxFindByChannelId
    \/ IxFindName
    \/ IxFindFullname

SpecIx == InitIx /\ [][NextIx]_vars

FileIds(table) == {table[i].file_id : i \in 1 .. Len(table)}

\* C15: an insert into the local store gives the new record the largest
\* file_id of the records then in the store plus 1, and 1 when the store is
\* empty; as long as nothing was deleted the n-th insert gets file_id n; and
\* the records in the store have pairwise distinct file_ids.
C15_LocalIds ==
    [][rt'.inserts = rt.inserts + 1
       => LET new == db'.local[Len(db'.local)].file_id
          IN /\ Len(db'.local) = Len(db.local) + 1
             /\ \/ db.local = <<>> /\ new = 1
                \/ /\ db.local # <<>>
                   /\ new - 1 \in FileIds(db.local)
                   /\ \A f \in FileIds(db.local) : f <= new - 1
             /\ ~rt.deleted => new = rt'.inserts
             /\ Cardinality(FileIds(db'.local)) = Len(db'.local)
      ]_vars

\* an insert after a delete took the largest file_id left plus 1, which is
\* not the number of the insert
C15_Witness ==
    /\ rt.call.op = "insert"
    /\ rt.deleted
    /\ rt.inserts = MaxInserts
    /\ Len(db.local) = 2
    /\ db.local[2].file_id = db.local[1].file_id + 1
    /\ db.local[2].file_id < rt.inserts

\* the arguments a stored row was inserted with
InsertedAs(r) ==
    Row(r.user_id, r.channel_id, r.file_name, r.file_size, r.file_type, r.num_files)

WithoutIds(table) == [i \in 1 .. Len(table) |-> InsertedAs(table[i])]

\* C16: after any sequence of inserts and deletes, get_files of the local
\* store returns exactly the rows inserted and not deleted since, each with
\* the user_id, channel_id, file_name, file_size and file_type it was
\* inserted with, in the order of the inserts.
C16_GetFiles ==
    rt.call.op = "get_files" => WithoutIds(rt.call.local.value) = rt.expected

\* get_files after a delete, returning two rows whose order of insertion is
\* not the order of their channel ids
C16_Witness ==
    /\ rt.call.op = "get_files"
    /\ rt.deleted
    /\ Len(rt.call.local.value) = 2
    /\ rt.call.local.value[1].channel_id > rt.call.local.value[2].channel_id
    /\ rt.call.local.value[1].user_id # rt.call.local.value[2].user_id

\* the rows of a store as a set
RowsOf(table) == {table[i] : i \in 1 .. Len(table)}

\* what one manager's delete_by_channel_id(ch) did to its store
DeletedAsClaimed(before, after, ch, result) ==
    LET hit == {r \in RowsOf(before) : r.channel_id = ch}
    IN /\ result.raised = FALSE
       /\ result.value = (hit # {})
       /\ hit # {} => /\ Len(after) = Len(before) - 1
                      /\ \E r \in hit : RowsOf(after) = RowsOf(before) \ {r}
       /\ hit = {} => after = before
       /\ Cardinality(hit) = 1 => {r \in RowsOf(after) : r.channel_id = ch} = {}

\* C17: delete_by_channel_id(c), in the local and in the cloud store, returns
\* true exactly when the store held a row with channel_id c; it then removes
\* that row and no other; when there is no such row it returns false and
\* leaves the store as it was, so the same delete repeated returns false.
C17_Delete ==
    [][rt'.call.op = "delete"
       => /\ DeletedAsClaimed(db.local, db'.local, rt'.call.arg, rt'.call.local)
          /\ DeletedAsClaimed(db.cloud, db'.cloud, rt'.call.arg, rt'.call.cloud)
          /\ (rt.call.op = "delete" /\ rt.call.arg = rt'.call.arg)
             => /\ rt'.call.local.value = FALSE
                /\ rt'.call.cloud.value = FALSE
      ]_vars

\* a delete that returned true and left two rows behind, the first and the
\* last of three
C17_Witness ==
    /\ rt.call.op = "delete"
    /\ rt.call.local.value = TRUE
    /\ rt.call.cloud.value = TRUE
    /\ rt.inserts = MaxInserts
    /\ Len(db.local) = 2
    /\ db.local[2].file_id = 3
    /\ db.local[1].file_id = 1

LookupOps ==
    {"find_by_id", "find_by_filename", "find_by_channel_id",
     "find_name_by_channel_id", "find_fullname_by_channel_id"}

\* the rows of a store that the last lookup asks for
Asked(table) ==
    {r \in RowsOf(table) :
        CASE rt.call.op = "find_by_id" -> r.file_id = ParseInt(rt.call.arg)
          [] rt.call.op = "find_by_filename" -> r.file_name = rt.call.arg
          [] OTHER -> r.channel_id = rt.call.arg}

\* what the last lookup returns for a row it asks for
AnswerFor(r) ==
    CASE rt.call.op = "find_name_by_channel_id" -> r.file_name
      [] rt.call.op = "find_fullname_by_channel_id" -> r.file_name \o <<".">> \o r.file_type
      [] OTHER -> Some(r.channel_id)

\* the not-found value of the last lookup
NotFoundValue ==
    IF rt.call.op \in {"find_name_by_channel_id", "find_fullname_by_channel_id"}
    THEN NoFileFound ELSE None

LookupAsClaimed(table, result) ==
    /\ result.raised = FALSE
    /\ Asked(table) # {} => \E r \in Asked(table) : result.value = AnswerFor(r)
    /\ Asked(table) = {} => result.value = NotFoundValue

\* C18: every lookup (by file_id, by file_name, by channel_id, name and full
\* name by channel_id), in the local and in the cloud store, returns the value
\* of a matching row when there is one and the not-found value when there is
\* none, and does not raise.
C18_Lookups ==
    rt.call.op \in LookupOps
    => /\ LookupAsClaimed(db.local, rt.call.local)
       /\ LookupAsClaimed(db.cloud, rt.call.cloud)

\* C19: the same sequence of inserts, deletes and lookups run against the
\* local store and against the cloud store gives the same result for every
\* lookup by file_id, by file_name and by channel_id and for every delete,
\* the not-found results included.  (The name lookups, which the cloud
\* store does not survive on a miss, are left out here.)
C19_SameResults ==
    rt.call.op \in {"find_by_id", "find_by_filename", "find_by_channel_id", "delete"}
    => rt.call.local = rt.call.cloud

----------------------------------------------------------------------------
(* Listing: FileListService.get_embed and its two buttons, run on its own *)

\* the number of records of a page: files[i:i+8], range(0, len(files), 8)
page_size == 8

\* bound: the largest number of records listed
MaxFiles == 17

\* a page number past the end shows the last page
ShownPageLast(page, num_pages) ==
    IF page < 1 THEN 1 ELSE IF page > num_pages THEN num_pages ELSE page

\* lines 59-60: a page out of range becomes page 1
ShownPage(page, num_pages) == IF page < 1 \/ page > num_pages THEN 1 ELSE page

\* line 56: the start indices range(0, len(files), 8)
ChunkStarts(files) == {i \in 0 .. Len(files) - 1 : i % page_size = 0}

\* line 56: files[i:i+8]
ChunkAt(files, i) == SubSeq(files, i + 1, Min(i + page_size, Len(files)))

\* lines 68-84: the fields added for the records of the chunk from the j-th on;
\* for a record whose channel is found a field naming the channel, and for
\* every record the field "Channel name not found"
RECURSIVE FieldsFrom(_, _, _)
FieldsFrom(chunk, j, live) ==
    IF j > Len(chunk) THEN <<>>
    ELSE LET file == chunk[j]
             named == [counter |-> j, file_id |-> file.file_id, user_id |-> file.user_id,
                       file_name |-> file.file_name, file_type |-> file.file_type,
                       file_size |-> file.file_size, channel |-> "saved in channel"]
             unnamed == [named EXCEPT !.channel = "Channel name not found"]
         IN (IF file.channel_id \in live THEN <<named>> ELSE <<>>)
            \o <<unnamed>> \o FieldsFrom(chunk, j + 1, live)

NoEmbed == [sent |-> "There are no files stored in the database.", page |-> 0,
            num_pages |-> 0, fields |-> <<>>, footer |-> FALSE, view |-> FALSE]

\* get_embed(page, ctx): what is sent, or the embed with its fields, its footer
\* and whether it comes with the two buttons
GetEmbed(files, page, live) ==
    IF Len(files) = 0 THEN NoEmbed
    ELSE LET num_pages == Cardinality(ChunkStarts(files))
             shown_page == ShownPage(page, num_pages)
         IN [sent |-> "embed", page |-> shown_page, num_pages |-> num_pages,
             fields |-> FieldsFrom(ChunkAt(files, page_size * (shown_page - 1)), 1, live),
             footer |-> (num_pages > 1), view |-> (num_pages > 1)]

\* an index holding k records, of the channels 1 .. k
RECURSIVE ListDb(_)
ListDb(k) ==
    IF k = 0 THEN EmptyDb(FALSE)
    ELSE HybridInsert(ListDb(k - 1), Row(1, k, <<"f">>, <<"1", "0", "M", "B">>, <<"t">>, 1))

\* the page numbers a requester may ask for
PageArgs == -1 .. 4

InitList ==
    /\ \E k \in 0 .. MaxFiles :
         /\ db = ListDb(k)
         /\ \E page \in PageArgs : \E live \in {{}, 1 .. k, {c \in 1 .. k : c % 2 = 1}} :
              rt = [phase |-> "list_input", asked |-> page, live |-> live, embed |-> NoEmbed]
    /\ issued = NoIssued
    /\ BotOff

\* embed(ctx, page): the first get_embed
ListOpen ==
    /\ rt.phase = "list_input"
    /\ rt' = [rt EXCEPT !.phase = "listed",
                        !.embed = GetEmbed(GetFiles(db), rt.asked, rt.live)]
    /\ UNCHANGED <<db, issued>>
    /\ UNCHANGED botVars

\* previous_callback: get_embed(page - 1) when page > 1
ListPrevious ==
    /\ rt.phase = "listed" /\ rt.embed.view
    /\ rt.embed.page > 1
    /\ rt' = [rt EXCEPT !.asked = rt.embed.page - 1,
                        !.embed = GetEmbed(GetFiles(db), rt.embed.page - 1, rt.live)]
    /\ UNCHANGED <<db, issued>>
    /\ UNCHANGED botVars

\* next_callback: get_embed(page + 1) when page < num_pages
ListNext ==
    /\ rt.phase = "listed" /\ rt.embed.view
    /\ rt.embed.page < rt.embed.num_pages
    /\ rt' = [rt EXCEPT !.asked = rt.embed.page + 1,
                        !.embed = GetEmbed(GetFiles(db), rt.embed.page + 1, rt.live)]
    /\ UNCHANGED <<db, issued>>
    /\ UNCHANGED botVars

NextList == ListOpen \/ ListPrevious \/ ListNext

SpecList == InitList /\ [][NextList]_vars

\* the records a sequence of fields is about, in order, each record once
RECURSIVE RecordsShown(_)
RecordsShown(fields) ==
    IF fields = <<>> THEN <<>>
    ELSE LET rest == RecordsShown(Tail(fields))
         IN IF rest # <<>> /\ rest[1] = fields[1].file_id THEN rest
            ELSE <<fields[1].file_id>> \o rest

\* C13: for K >= 1 records listing computes total_pages = ceil(K/8); the page
\* shown is the one asked for when it lies in 1 .. total_pages and page 1
\* otherwise; it shows the records at the positions 8(p-1)+1 .. min(8p, K) of
\* get_files, in that order.
C13_Pagination ==
    (rt.phase = "listed" /\ Len(GetFiles(db)) >= 1) =>
        LET K == Len(GetFiles(db))
            total_pages == (K + 7) \div 8
            p == IF rt.asked >= 1 /\ rt.asked <= total_pages THEN rt.asked ELSE 1
        IN /\ rt.embed.num_pages = total_pages
           /\ rt.embed.page = p
           /\ RecordsShown(rt.embed.fields)
                = [n \in 1 .. (Min(8 * p, K) - 8 * (p - 1)) |->
                       GetFiles(db)[8 * (p - 1) + n].file_id]

\* C13, its case: 17 records, page 4 asked for, page 1 of 3 shown with the
\* first 8 records
C13_Witness ==
    /\ rt.phase = "listed"
    /\ Len(GetFiles(db)) = 17
    /\ rt.asked = 4
    /\ rt.embed.page = 1 /\ rt.embed.num_pages = 3
    /\ RecordsShown(rt.embed.fields) = <<1, 2, 3, 4, 5, 6, 7, 8>>

----------------------------------------------------------------------------
(* Split / merge round trip: the inputs are drawn in InitSplit, RtSplit runs  *)
(* split_file, RtMerge runs merge_files over the parts (the download          *)
(* directory holds the attachments under the names they were sent with).     *)

RtNames == { <<"f">>, <<"a", "_", "1">> }

ChunkSizes == (1 .. MaxChunk) \cup {chunk_size}

\* the sizes of the round-trip property, for chunk size c
RtSizes(c) == {0, 1, c - 1, c, c + 1, 10 * c + 7}

\* no write fails, or the write of one of the first two parts fails
RtIoErrs(n, c) == {{}} \cup {{i} : i \in {j \in 0 .. 1 : j * c < n}}

InitSplit ==
    /\ \E c \in ChunkSizes : \E n \in RtSizes(c) : \E f \in RtNames :
         \E e \in RtIoErrs(n, c) :
            rt = [phase |-> "input", src |-> 1, size |-> n, csize |-> c, filename |-> f,
                  ioerr |-> e, dir |-> <<>>, num_chunks |-> 0, ok |-> FALSE, out |-> NoFile]
    /\ db = EmptyDb(FALSE)
    /\ issued = NoIssued
    /\ BotOff

\* success = self.split_file(path, file_name)
RtSplit ==
    /\ rt.phase = "input"
    /\ LET r == SplitFile(rt.src, rt.size, rt.csize, rt.filename, rt.ioerr)
       IN rt' = [rt EXCEPT !.phase = "split", !.dir = r.written,
                           !.num_chunks = r.num_chunks, !.ok = r.ok]
    /\ UNCHANGED <<db, issued>>
    /\ UNCHANGED botVars

\* merge_files over the directory holding the parts
RtMerge ==
    /\ rt.phase = "split"
    /\ rt' = [rt EXCEPT !.phase = "merged", !.out = MergeFiles(rt.dir)]
    /\ UNCHANGED <<db, issued>>
    /\ UNCHANGED botVars

NextSplit == RtSplit \/ RtMerge

SpecSplit == InitSplit /\ [][NextSplit]_vars

\* ceil(n / c), computed without the remainder test of split_file
CeilDiv(n, c) == (n + c - 1) \div c

\* the size the i-th of k parts must have
PartSize(n, c, k, i) == IF i < k - 1 THEN c ELSE n - c * (k - 1)

RtPartsAsClaimed ==
    LET k == CeilDiv(rt.size, rt.csize)
    IN /\ DOMAIN rt.dir = {rt.filename \o <<"_">> \o DecStr(i) : i \in 0 .. (k - 1)}
       /\ \A i \in 0 .. (k - 1) :
            ByteLen(rt.dir[rt.filename \o <<"_">> \o DecStr(i)])
               = PartSize(rt.size, rt.csize, k, i)

\* C1 (as stated): whenever split_file succeeded, merging its parts in ascending
\* suffix order yields exactly the original bytes, for every size including 0.
C1_RoundTripAll ==
    (rt.phase = "merged" /\ rt.ok) => rt.out = File(Whole(rt.src, rt.size))

\* C1 (amended): for every size N >= 1 of the list, merging the parts of a
\* successful split in ascending suffix order yields exactly the original bytes;
\* for N = 0 there is no part and merge_files writes no output file at all.
C1_RoundTrip ==
    (rt.phase = "merged" /\ rt.ok) =>
        IF rt.size = 0 THEN rt.out = NoFile
        ELSE rt.out = File(Whole(rt.src, rt.size))

\* a file of 10C+7 bytes was split into 11 parts and merged back
C1_Witness ==
    /\ rt.phase = "merged" /\ rt.ok
    /\ rt.size = 10 * rt.csize + 7
    /\ Cardinality(DOMAIN rt.dir) = 11
    /\ rt.out = File(Whole(rt.src, rt.size))

\* C3: split_file writes exactly ceil(N/C) part files {name}_0 .. {name}_{k-1}
\* (none when N = 0); when no write fails every part holds C bytes except the
\* last, which holds the rest; and it returns True exactly when all parts were
\* written in full.
C3_SplitParts ==
    rt.phase \in {"split", "merged"} =>
        LET k == CeilDiv(rt.size, rt.csize)
        IN /\ Cardinality(DOMAIN rt.dir) = k
           /\ DOMAIN rt.dir = {rt.filename \o <<"_">> \o DecStr(i) : i \in 0 .. (k - 1)}
           /\ (rt.size = 0 => DOMAIN rt.dir = {})
           /\ (rt.ok <=> RtPartsAsClaimed)
           /\ (rt.ioerr = {} => rt.ok)

\* a split of C+1 bytes wrote two parts, of C bytes and of 1 byte, and reported success
C3_Witness ==
    /\ rt.phase = "split" /\ rt.ok
    /\ rt.size = rt.csize + 1
    /\ Cardinality(DOMAIN rt.dir) = 2
    /\ ByteLen(rt.dir[rt.filename \o <<"_", "0">>]) = rt.csize
    /\ ByteLen(rt.dir[rt.filename \o <<"_", "1">>]) = 1

====
